---- MODULE Spec2Model ----
(***************************************************************************)
(* Model of the voice-clone job store (app/services/job_manager.py), the   *)
(* pipeline orchestrator (app/services/pipeline_orchestrator.py) and the   *)
(* HTTP handlers that drive them (app/main.py).                            *)
(*                                                                         *)
(* Statuses are the member names the orchestrator and the handlers write   *)
(* (JobStatus.EXTRACTING_AUDIO, ...).  Progress is kept in units of 1/6000 *)
(* so that 0.70 + 0.15 * (idx + 1) / total is exact for small totals.      *)
(* One action is one run of a handler, or one stretch of a background      *)
(* coroutine between two awaits.                                           *)
(***************************************************************************)
EXTENDS Integers, Sequences, FiniteSets, TLC

\* ------------------------------------------------------------------
\* Bounds
\* ------------------------------------------------------------------

MaxJobs == 2
MaxIds == 3
MaxRuns == 3
MaxSegments == 2
MaxFaults == 1
MaxAssignments == 2

\* job ids there are; a specification creates at most MaxJobs of them, or all
JobIds == 1..MaxIds
RunIds == 1..MaxRuns

\* ------------------------------------------------------------------
\* Values
\* ------------------------------------------------------------------

None == "None"
NoJob == [absent |-> TRUE]

Pct(n) == n * 60

SpeakerIds == {"SPEAKER_00", "SPEAKER_01"}
RefFiles == {"ref.wav"}
ErrTexts == {"worker error"}
Uploads == {"a.wav", "v.mp4"}
\* a voice profile the library holds, and an id it does not hold
VoiceIds == {"voice_1", "voice_9"}

\* voice_manager.get_audio_path: the audio file of a profile, if there is one
get_audio_path(voice_id) == IF voice_id = "voice_1" THEN "voice_1.wav" ELSE None

WriteOutcomes == {"ok", "open_fails", "truncated"}

is_video(f) == f = "v.mp4"

_detect_input_type(filename) == IF is_video(filename) THEN "video" ELSE "audio"

\* the members of the status type as app/models.py declares it
JobStatus == {"PENDING", "PROCESSING", "COMPLETED", "FAILED"}

\* value of each status member in job.json
StatusValue ==
    [PENDING |-> "pending",
     EXTRACTING_AUDIO |-> "extracting_audio",
     SEPARATING |-> "separating",
     DIARIZING |-> "diarizing",
     TRANSCRIBING |-> "transcribing",
     AWAITING_VOICE_ASSIGNMENT |-> "awaiting_voice_assignment",
     GENERATING_SPEECH |-> "generating_speech",
     ALIGNING |-> "aligning",
     MERGING |-> "merging",
     COMPLETED |-> "completed",
     FAILED |-> "failed"]

\* updated_at is kept relative to the job's last change: it is the moment of
\* that change, or an earlier moment
Now == "last_change"
Earlier == "earlier"

JobInfo(input_type, filename) ==
    [status |-> "PENDING",
     input_type |-> input_type,
     input_filename |-> filename,
     speakers |-> << >>,
     segments |-> << >>,
     progress |-> 0,
     error |-> None,
     output_file |-> None,
     updated_at |-> Now]

\* ------------------------------------------------------------------
\* job.json
\* ------------------------------------------------------------------

NoFile == [kind |-> "missing"]
Malformed == [kind |-> "malformed"]
\* a job directory; `saved` keeps the Job the content of job.json was made from
NoDir == [dir |-> FALSE, json |-> NoFile, files |-> {}, saved |-> NoJob]

JsonOpt(x) == IF x = None THEN [null |-> TRUE, str |-> ""] ELSE [null |-> FALSE, str |-> x]

FromJsonOpt(x) == IF x.null THEN None ELSE x.str

model_dump_json(job) ==
    [kind |-> "json",
     status |-> StatusValue[job.status],
     input_type |-> job.input_type,
     input_filename |-> job.input_filename,
     speakers |-> [i \in DOMAIN job.speakers |->
                     [speaker_id |-> job.speakers[i].speaker_id,
                      label |-> job.speakers[i].label,
                      assigned_voice_ref |-> JsonOpt(job.speakers[i].assigned_voice_ref)]],
     segments |-> job.segments,
     progress |-> job.progress,
     error |-> JsonOpt(job.error),
     output_file |-> JsonOpt(job.output_file),
     updated_at |-> job.updated_at]

model_validate_json(doc) ==
    IF doc.kind # "json" THEN NoJob
    ELSE IF ~(\E s \in DOMAIN StatusValue : StatusValue[s] = doc.status) THEN NoJob
    ELSE [status |-> CHOOSE s \in DOMAIN StatusValue : StatusValue[s] = doc.status,
          input_type |-> doc.input_type,
          input_filename |-> doc.input_filename,
          speakers |-> [i \in DOMAIN doc.speakers |->
                          [speaker_id |-> doc.speakers[i].speaker_id,
                           label |-> doc.speakers[i].label,
                           assigned_voice_ref |-> FromJsonOpt(doc.speakers[i].assigned_voice_ref)]],
          segments |-> doc.segments,
          progress |-> doc.progress,
          error |-> FromJsonOpt(doc.error),
          output_file |-> FromJsonOpt(doc.output_file),
          updated_at |-> doc.updated_at]

\* ------------------------------------------------------------------
\* State
\* ------------------------------------------------------------------

VARIABLES
    jobs,       \* JobManager._jobs: job_id -> JobInfo
    disk,       \* <STORAGE_DIR>/jobs: job_id -> directory (job.json and files)
    nextId,     \* job ids handed out so far
    runs,       \* background tasks launched so far, with what each has written
    wrote,      \* per job: did the last write of job.json succeed
    faults,     \* writes of job.json the disk has failed so far
    call,       \* a pipeline function at work: its arguments, its locals, its result
    engine      \* the RealtimeAudioEngine: is_processing, current_voice_id, stream

\* the job store and the background tasks
store == <<jobs, disk, nextId, runs, wrote, faults>>

vars == <<jobs, disk, nextId, runs, wrote, faults, call, engine>>

\* no pipeline function is at work
NoCall == [fn |-> None]

\* RealtimeAudioEngine.__init__
NewEngine == [is_processing |-> FALSE, current_voice_id |-> None, stream |-> None]

Put(f, k, v) == [x \in DOMAIN f \cup {k} |-> IF x = k THEN v ELSE f[x]]

Drop(f, k) == [x \in DOMAIN f \ {k} |-> f[x]]

\* ways a write may end while the disk has failures left to give
Outcomes == IF faults < MaxFaults THEN WriteOutcomes ELSE {"ok"}

Charge(w) == IF w = "ok" THEN faults ELSE faults + 1

AddFile(dk, id, f) == [dk EXCEPT ![id] = [@ EXCEPT !.dir = TRUE, !.files = @ \cup {f}]]

\* ------------------------------------------------------------------
\* JobManager
\* ------------------------------------------------------------------

save_job(dk, id, job, w) ==
    [dk EXCEPT ![id] =
        [dir |-> TRUE,
         json |-> CASE w = "ok" -> model_dump_json(job)
                    [] w = "open_fails" -> @.json
                    [] w = "truncated" -> Malformed,
         files |-> @.files,
         saved |-> CASE w = "ok" -> job
                     [] w = "open_fails" -> @.saved
                     [] w = "truncated" -> NoJob]]

load_job(dk, id) ==
    IF dk[id].json = NoFile THEN NoJob ELSE model_validate_json(dk[id].json)

\* the value get_job returns
get_job(js, dk, id) ==
    IF id \in DOMAIN js THEN js[id] ELSE load_job(dk, id)

\* the cache get_job leaves behind
CacheAfterGet(js, dk, id) ==
    IF id \notin DOMAIN js /\ load_job(dk, id) # NoJob
    THEN Put(js, id, load_job(dk, id))
    ELSE js

\* variant: update_job that changes the cached job and does not save it
update_job_unsaved(js, dk, id, kwargs, w) ==
    LET job == get_job(js, dk, id) IN
    IF job = NoJob
    THEN [raised |-> TRUE, jobs |-> js, disk |-> dk]
    ELSE LET new == [f \in DOMAIN job |->
                        IF f \in DOMAIN kwargs THEN kwargs[f]
                        ELSE IF f = "updated_at" THEN Now
                        ELSE job[f]]
         IN [raised |-> FALSE, jobs |-> Put(js, id, new), disk |-> dk]

\* update_job: raised, or the cache and the disk it leaves behind
update_job(js, dk, id, kwargs, w) ==
    LET job == get_job(js, dk, id) IN
    IF job = NoJob
    THEN [raised |-> TRUE, jobs |-> js, disk |-> dk]
    ELSE LET new == [f \in DOMAIN job |->
                        IF f \in DOMAIN kwargs THEN kwargs[f]
                        ELSE IF f = "updated_at" THEN Now
                        ELSE job[f]]
         IN [raised |-> FALSE,
             jobs |-> Put(js, id, new),
             disk |-> save_job(dk, id, new, w)]

\* variant: a scan that gives up at the first job.json it cannot load
_load_all_jobs_strict(dk) ==
    LET ok == {id \in JobIds : dk[id].dir /\ load_job(dk, id) # NoJob}
    IN IF \E id \in JobIds : dk[id].dir /\ load_job(dk, id) = NoJob
       THEN << >>
       ELSE [id \in ok |-> load_job(dk, id)]

_load_all_jobs(dk) ==
    LET ok == {id \in JobIds : dk[id].dir /\ load_job(dk, id) # NoJob}
    IN [id \in ok |-> load_job(dk, id)]

\* ------------------------------------------------------------------
\* Diarizer helpers
\* ------------------------------------------------------------------

FirstIdx(segments, sid) ==
    CHOOSE i \in DOMAIN segments :
        /\ segments[i].speaker_id = sid
        /\ \A j \in 1..(i - 1) : segments[j].speaker_id # sid

\* variant: only the speaker of the first segment is listed
get_speakers_first(segments) ==
    IF segments = << >> THEN << >>
    ELSE <<[speaker_id |-> segments[1].speaker_id, label |-> <<"Speaker", 1>>,
            assigned_voice_ref |-> None]>>

get_speakers(segments) ==
    LET ids == {segments[i].speaker_id : i \in DOMAIN segments}
        Rank(sid) == Cardinality({t \in ids : FirstIdx(segments, t) <= FirstIdx(segments, sid)})
    IN [n \in 1..Cardinality(ids) |->
          LET sid == CHOOSE t \in ids : Rank(t) = n
          IN [speaker_id |-> sid, label |-> <<"Speaker", n>>, assigned_voice_ref |-> None]]

\* segment lists the analysis can come up with
SegmentLists ==
    UNION {[1..n -> {[speaker_id |-> sid] : sid \in SpeakerIds}] : n \in 0..MaxSegments}

\* ------------------------------------------------------------------
\* Background tasks
\* ------------------------------------------------------------------

Active(r) == r \in DOMAIN runs /\ runs[r].pc \notin {"done", "failed", "escaped", "killed"}

NewRun(kind, job, ref_map, src) ==
    [kind |-> kind, job |-> job, pc |-> "start", idx |-> 0,
     ref_map |-> ref_map, src |-> src, segments |-> << >>, out |-> None,
     exc |-> None, log |-> << >>, task |-> "pending", clips |-> << >>]

_launch_background_task(run) == Append(runs, run)

\* variant: a wrapper that awaits the coroutine outside any try block
_wrapper_bare(raised) == IF raised THEN "unhandled" ELSE "returned"

\* how the task ends when the coroutine it awaits returns or raises
_wrapper(raised) == IF raised THEN "logged" ELSE "returned"

\* workflows whose except clause ends in `raise`
Reraises(kind) == kind \in {"tts", "music", "singing", "mix"}

\* what one update_job call of a run writes
Entry(kwargs) ==
    [status |-> IF "status" \in DOMAIN kwargs THEN kwargs.status ELSE None,
     progress |-> IF "progress" \in DOMAIN kwargs THEN kwargs.progress ELSE -1,
     error |-> IF "error" \in DOMAIN kwargs THEN kwargs.error ELSE None,
     output_file |-> IF "output_file" \in DOMAIN kwargs THEN kwargs.output_file ELSE None]

\* the part of the state one stretch of a coroutine works on
Begin(r, dk) ==
    [jobs |-> jobs, disk |-> dk, wrote |-> wrote, log |-> runs[r].log, exc |-> None]

\* self.job_manager.update_job(job_id, **kwargs) inside a try block
Update(st, id, kwargs, w) ==
    IF st.exc # None THEN st
    ELSE LET u == update_job(st.jobs, st.disk, id, kwargs, w) IN
         IF u.raised
         THEN [st EXCEPT !.exc = "Job not found"]
         ELSE [jobs |-> u.jobs,
               disk |-> u.disk,
               wrote |-> [st.wrote EXCEPT ![id] = (w = "ok")],
               log |-> Append(st.log, Entry(kwargs)),
               exc |-> None]

\* raise inside a try block
Raise(st, text) == IF st.exc # None THEN st ELSE [st EXCEPT !.exc = text]

\* variant: an except clause that marks the job FAILED without the error text
Handler_notext(st, id, w) ==
    LET h == Update([st EXCEPT !.exc = None], id,
                    [status |-> "FAILED", error |-> None], w)
    IN IF h.exc # None THEN [h EXCEPT !.exc = "escaped"] ELSE [h EXCEPT !.exc = "failed"]

\* except Exception as exc: update_job(job_id, status=FAILED, error=str(exc))
Handler(st, id, w) ==
    LET h == Update([st EXCEPT !.exc = None], id,
                    [status |-> "FAILED", error |-> st.exc], w)
    IN IF h.exc # None THEN [h EXCEPT !.exc = "escaped"] ELSE [h EXCEPT !.exc = "failed"]

\* end of a stretch: either the coroutine waits at `next`, or the except
\* clause has run and the task is over
Commit(r, st_in, next_in, w) ==
    \E st \in {st_in}, next \in {next_in} :
    \E fin \in {IF st.exc = None THEN st ELSE Handler(st, runs[r].job, w)} :
       /\ jobs' = fin.jobs
       /\ disk' = fin.disk
       /\ wrote' = fin.wrote
       /\ runs' = [runs EXCEPT ![r] =
                     IF st.exc = None
                     THEN [next EXCEPT !.log = fin.log,
                                       !.task = IF next.pc = "done" THEN _wrapper(FALSE) ELSE @]
                     ELSE [@ EXCEPT !.pc = fin.exc, !.exc = st.exc, !.log = fin.log,
                                    !.task = _wrapper(fin.exc = "escaped" \/ Reraises(runs[r].kind))]]
       /\ faults' = Charge(w)
       /\ UNCHANGED <<nextId, call, engine>>

\* ------------------------------------------------------------------
\* process_upload
\* ------------------------------------------------------------------

UploadStart(r, w) ==
    /\ r \in DOMAIN runs /\ runs[r].kind = "upload" /\ runs[r].pc = "start"
    /\ LET id == runs[r].job IN
       IF get_job(jobs, disk, id) = NoJob
       THEN /\ runs' = [runs EXCEPT ![r].pc = "done", ![r].task = _wrapper(FALSE)]
            /\ UNCHANGED <<jobs, disk, wrote, nextId, faults, call, engine>>
       ELSE Commit(r,
                   Update(Begin(r, disk), id,
                          [status |-> "EXTRACTING_AUDIO", progress |-> Pct(5)], w),
                   [runs[r] EXCEPT !.pc = "extract"], w)

ExtractDone(r, w) ==
    /\ r \in DOMAIN runs /\ runs[r].kind = "upload" /\ runs[r].pc = "extract"
    /\ LET id == runs[r].job IN
       Commit(r,
              Update(Begin(r, AddFile(disk, id, "audio.wav")), id,
                     [status |-> "SEPARATING", progress |-> Pct(15)], w),
              [runs[r] EXCEPT !.pc = "separate"], w)

SeparateDone(r, w) ==
    /\ r \in DOMAIN runs /\ runs[r].kind = "upload" /\ runs[r].pc = "separate"
    /\ LET id == runs[r].job IN
       Commit(r,
              Update(Begin(r, AddFile(disk, id, "music.wav")), id,
                     [status |-> "DIARIZING", progress |-> Pct(35)], w),
              [runs[r] EXCEPT !.pc = "diarize"], w)

\* variant: the stage after diarization announced as DIARIZING once more
DiarizeDone_repeat(r, segments, w) ==
    /\ r \in DOMAIN runs /\ runs[r].kind = "upload" /\ runs[r].pc = "diarize"
    /\ LET id == runs[r].job IN
       Commit(r,
              Update(Begin(r, disk), id,
                     [status |-> "DIARIZING", progress |-> Pct(50)], w),
              [runs[r] EXCEPT !.pc = "transcribe", !.segments = segments], w)

DiarizeDone(r, segments, w) ==
    /\ r \in DOMAIN runs /\ runs[r].kind = "upload" /\ runs[r].pc = "diarize"
    /\ LET id == runs[r].job IN
       Commit(r,
              Update(Begin(r, disk), id,
                     [status |-> "TRANSCRIBING", progress |-> Pct(50)], w),
              [runs[r] EXCEPT !.pc = "transcribe", !.segments = segments], w)

TranscribeDone(r, w) ==
    /\ r \in DOMAIN runs /\ runs[r].kind = "upload" /\ runs[r].pc = "transcribe"
    /\ LET id == runs[r].job
           segments == runs[r].segments
       IN Commit(r,
                 Update(Begin(r, disk), id,
                        [speakers |-> get_speakers(segments),
                         segments |-> segments,
                         status |-> "AWAITING_VOICE_ASSIGNMENT",
                         progress |-> Pct(65)], w),
                 [runs[r] EXCEPT !.pc = "done"], w)

\* an awaited worker raises
WorkerRaises(r, text, w) ==
    /\ Active(r) /\ runs[r].pc # "start"
    /\ Commit(r, Raise(Begin(r, disk), text), runs[r], w)

\* ------------------------------------------------------------------
\* process_voice_replacement
\* ------------------------------------------------------------------

\* variant: a loop that takes every segment, assigned or not
NextAssigned_noskip(segments, ref_map, from) ==
    IF from < Len(segments) THEN from + 1 ELSE 0

\* next segment after `from` whose speaker has a reference, 0 when none is left
NextAssigned(segments, ref_map, from) ==
    LET later == {i \in DOMAIN segments :
                    i > from /\ segments[i].speaker_id \in DOMAIN ref_map}
    IN IF later = {} THEN 0
       ELSE CHOOSE i \in later : \A k \in later : i <= k

\* the segment loop from `from` on: wait for the next synthesis, or leave the
\* loop and go on to alignment
SegmentLoop(r, st, run, from, w) ==
    LET id == runs[r].job
        n == NextAssigned(run.segments, run.ref_map, from)
    IN IF n # 0
       THEN Commit(r, st, [run EXCEPT !.pc = "synth", !.idx = n], w)
       ELSE Commit(r,
                   Update(st, id, [status |-> "ALIGNING", progress |-> Pct(85)], w),
                   [run EXCEPT !.pc = "align", !.idx = 0], w)

ReplaceStart(r, w) ==
    /\ r \in DOMAIN runs /\ runs[r].kind = "replace" /\ runs[r].pc = "start"
    /\ LET id == runs[r].job
           job == get_job(jobs, disk, id)
       IN IF job = NoJob
          THEN /\ runs' = [runs EXCEPT ![r].pc = "done", ![r].task = _wrapper(FALSE)]
               /\ UNCHANGED <<jobs, disk, wrote, nextId, faults, call, engine>>
          ELSE SegmentLoop(r,
                           Update(Begin(r, disk), id,
                                  [status |-> "GENERATING_SPEECH", progress |-> Pct(70)], w),
                           [runs[r] EXCEPT !.segments = job.segments], 0, w)

\* variant: segment progress without the division by the number of segments
SynthDone_undivided(r, w) ==
    /\ r \in DOMAIN runs /\ runs[r].kind = "replace" /\ runs[r].pc = "synth"
    /\ LET id == runs[r].job
           idx == runs[r].idx
           seg_progress == Pct(70) + Pct(15) * idx
       IN SegmentLoop(r,
                      Update(Begin(r, AddFile(disk, id, "clips")), id,
                             [progress |-> seg_progress], w),
                      [runs[r] EXCEPT !.clips = Append(@, idx)], idx, w)

SynthDone(r, w) ==
    /\ r \in DOMAIN runs /\ runs[r].kind = "replace" /\ runs[r].pc = "synth"
    /\ LET id == runs[r].job
           idx == runs[r].idx
           total_segments == Len(runs[r].segments)
           seg_progress == Pct(70) + (Pct(15) * idx) \div total_segments
       IN SegmentLoop(r,
                      Update(Begin(r, AddFile(disk, id, "clips")), id,
                             [progress |-> seg_progress], w),
                      [runs[r] EXCEPT !.clips = Append(@, idx)], idx, w)

AlignDone(r, w) ==
    /\ r \in DOMAIN runs /\ runs[r].kind = "replace" /\ runs[r].pc = "align"
    /\ LET id == runs[r].job
           st1 == Update(Begin(r, disk), id,
                         [status |-> "MERGING", progress |-> Pct(90)], w)
           st2 == IF "audio.wav" \notin disk[id].files
                  THEN Raise(st1, "audio.wav not found")
                  ELSE IF "music.wav" \notin disk[id].files
                  THEN Raise(st1, "No accompaniment/music track found")
                  ELSE st1
       IN Commit(r, st2, [runs[r] EXCEPT !.pc = "merge"], w)

MergeDone(r, w) ==
    /\ r \in DOMAIN runs /\ runs[r].kind = "replace" /\ runs[r].pc = "merge"
    /\ LET id == runs[r].job
           dk == AddFile(disk, id, "final.wav")
           video == \E f \in dk[id].files : f \in Uploads /\ is_video(f)
       IN Commit(r, Begin(r, dk),
                 IF video
                 THEN [runs[r] EXCEPT !.pc = "rebuild", !.out = "final.mp4"]
                 ELSE [runs[r] EXCEPT !.pc = "export", !.out = "final.wav"], w)

\* variant: a rebuild that returns without having written final.mp4
RebuildDone_nofile(r, w) ==
    /\ r \in DOMAIN runs /\ runs[r].kind = "replace" /\ runs[r].pc = "rebuild"
    /\ LET id == runs[r].job
           st == IF "final.wav" \notin disk[id].files
                 THEN Raise(Begin(r, disk), "WAV file not found")
                 ELSE Begin(r, disk)
       IN Commit(r, st, [runs[r] EXCEPT !.pc = "export"], w)

RebuildDone(r, w) ==
    /\ r \in DOMAIN runs /\ runs[r].kind = "replace" /\ runs[r].pc = "rebuild"
    /\ LET id == runs[r].job
           dk == AddFile(disk, id, "final.mp4")
           st == IF "final.wav" \notin dk[id].files
                 THEN Raise(Begin(r, dk), "WAV file not found")
                 ELSE Begin(r, dk)
       IN Commit(r, st, [runs[r] EXCEPT !.pc = "export"], w)

OutputName(kind) ==
    CASE kind = "tts" -> "tts_output.wav"
      [] kind = "music" -> "music_output.wav"
      [] kind = "singing" -> "singing_output.wav"
      [] kind = "mix" -> "mixed_output.wav"

\* variant: a workflow that returns its output without writing COMPLETED
ExportDone_silent(r, w) ==
    /\ r \in DOMAIN runs /\ runs[r].pc = "export"
    /\ LET id == runs[r].job
           wav == IF runs[r].kind = "replace" THEN "final.wav" ELSE OutputName(runs[r].kind)
           st == IF wav \notin disk[id].files
                 THEN Raise(Begin(r, disk), "WAV file not found")
                 ELSE Begin(r, disk)
       IN Commit(r, st, [runs[r] EXCEPT !.pc = "done"], w)

\* export_formats returns: the last update of every workflow
ExportDone(r, w) ==
    /\ r \in DOMAIN runs /\ runs[r].pc = "export"
    /\ LET id == runs[r].job
           wav == IF runs[r].kind = "replace" THEN "final.wav" ELSE OutputName(runs[r].kind)
           st == IF wav \notin disk[id].files
                 THEN Raise(Begin(r, disk), "WAV file not found")
                 ELSE Begin(r, disk)
       IN Commit(r,
                 Update(st, id,
                        [status |-> "COMPLETED", progress |-> Pct(100),
                         output_file |-> runs[r].out], w),
                 [runs[r] EXCEPT !.pc = "done"], w)

\* ------------------------------------------------------------------
\* process_tts, process_music, process_singing, process_mix
\* ------------------------------------------------------------------

MkDir(dk, id) == [dk EXCEPT ![id].dir = TRUE]

GenerateStart(r, w) ==
    /\ r \in DOMAIN runs /\ runs[r].kind \in {"tts", "music", "singing"}
    /\ runs[r].pc = "start"
    /\ LET id == runs[r].job IN
       Commit(r,
              Update(Begin(r, MkDir(disk, id)), id,
                     [status |-> "GENERATING_SPEECH", progress |-> Pct(30)], w),
              [runs[r] EXCEPT !.pc = "generate"], w)

GenerateDone(r, w) ==
    /\ r \in DOMAIN runs /\ runs[r].kind \in {"tts", "music", "singing"}
    /\ runs[r].pc = "generate"
    /\ LET id == runs[r].job
           kind == runs[r].kind
           st0 == Begin(r, AddFile(disk, id, OutputName(kind)))
           st == IF kind = "singing"
                 THEN Update(st0, id, [progress |-> Pct(85)], w)
                 ELSE st0
       IN Commit(r, st, [runs[r] EXCEPT !.pc = "export", !.out = OutputName(kind)], w)

\* a source job process_mix and mix_audio accept
Mixable(job, dk, id) ==
    /\ job # NoJob
    /\ job.status = "COMPLETED"
    /\ job.output_file # None
    /\ job.output_file \in dk[id].files

\* variant: a mix workflow that relies on the checks the handler has made
MixStart_unchecked(r, w) ==
    /\ r \in DOMAIN runs /\ runs[r].kind = "mix" /\ runs[r].pc = "start"
    /\ LET id == runs[r].job
           st1 == [Begin(r, disk) EXCEPT !.disk = MkDir(disk, id)]
       IN Commit(r,
                 Update(st1, id, [status |-> "MERGING", progress |-> Pct(20)], w),
                 [runs[r] EXCEPT !.pc = "mix"], w)

MixStart(r, w) ==
    /\ r \in DOMAIN runs /\ runs[r].kind = "mix" /\ runs[r].pc = "start"
    /\ LET id == runs[r].job
           tts_job_id == runs[r].src[1]
           music_job_id == runs[r].src[2]
           js == CacheAfterGet(CacheAfterGet(jobs, disk, tts_job_id), disk, music_job_id)
           st0 == [Begin(r, disk) EXCEPT !.jobs = js]
           st1 == IF ~Mixable(get_job(jobs, disk, tts_job_id), disk, tts_job_id)
                  THEN Raise(st0, "TTS job not usable")
                  ELSE IF ~Mixable(get_job(js, disk, music_job_id), disk, music_job_id)
                  THEN Raise(st0, "Music job not usable")
                  ELSE [st0 EXCEPT !.disk = MkDir(disk, id)]
       IN Commit(r,
                 Update(st1, id, [status |-> "MERGING", progress |-> Pct(20)], w),
                 [runs[r] EXCEPT !.pc = "mix"], w)

MixDone(r, w) ==
    /\ r \in DOMAIN runs /\ runs[r].kind = "mix" /\ runs[r].pc = "mix"
    /\ LET id == runs[r].job IN
       Commit(r,
              Update(Begin(r, AddFile(disk, id, OutputName("mix"))), id,
                     [progress |-> Pct(70)], w),
              [runs[r] EXCEPT !.pc = "export", !.out = OutputName("mix")], w)

\* ------------------------------------------------------------------
\* HTTP handlers
\* ------------------------------------------------------------------

CanCreate == nextId < MaxIds /\ Len(runs) < MaxRuns

\* create_job, then the handler's launch of `kind` on the new job
CreateAndLaunch(input_type, filename, file, kind, src, w) ==
    LET id == nextId + 1
        job == JobInfo(input_type, filename)
        dk == save_job(disk, id, job, w)
    IN /\ jobs' = Put(jobs, id, job)
       /\ disk' = IF file = None THEN dk ELSE AddFile(dk, id, file)
       /\ wrote' = [wrote EXCEPT ![id] = (w = "ok")]
       /\ nextId' = id
       /\ faults' = Charge(w)
       /\ runs' = _launch_background_task(NewRun(kind, id, << >>, src))
       /\ UNCHANGED <<call, engine>>

\* create_job, after which the handler raises and launches nothing
CreateAndRaise(input_type, filename, w) ==
    LET id == nextId + 1
        job == JobInfo(input_type, filename)
    IN /\ jobs' = Put(jobs, id, job)
       /\ disk' = save_job(disk, id, job, w)
       /\ wrote' = [wrote EXCEPT ![id] = (w = "ok")]
       /\ nextId' = id
       /\ faults' = Charge(w)
       /\ UNCHANGED <<runs, call, engine>>

\* create_job, then delete_job on the new job
CreateAndDelete(w) ==
    /\ wrote' = [wrote EXCEPT ![nextId + 1] = (w = "ok")]
    /\ nextId' = nextId + 1
    /\ faults' = Charge(w)
    /\ UNCHANGED <<jobs, disk, runs, call, engine>>

\* file names a client may send, one of them with no allowed extension
UploadNames == Uploads \cup {"notes.txt"}

\* the upload against MAX_FILE_SIZE_MB: within it, declared larger, or
\* larger once it is on disk
UploadSizes == {"fits", "declared_too_large", "too_large"}

upload_file(filename, size, w) ==
    IF filename \notin Uploads \/ size = "declared_too_large"
    THEN UNCHANGED vars
    ELSE /\ CanCreate
         /\ IF size = "too_large"
            THEN CreateAndDelete(w)
            ELSE CreateAndLaunch(_detect_input_type(filename), filename, filename,
                                 "upload", << >>, w)

\* the form fields of a text-to-speech request the handler branches on
TtsRequests ==
    [text_ok : BOOLEAN,
     voice_id : VoiceIds \cup {None},
     reference_audio : RefFiles \cup {None},
     tts_model : {"qwen", "mms"}]

\* the reference the handler resolves: a profile's audio, the uploaded
\* file, or none
ref_path(q) ==
    IF q.voice_id # None THEN get_audio_path(q.voice_id) ELSE q.reference_audio

\* requests that are accepted and bring no file
PlainTts ==
    {q \in [text_ok : {TRUE}, voice_id : {"voice_1", None},
            reference_audio : {None}, tts_model : {"qwen", "mms"}] :
        q.tts_model = "qwen" => ref_path(q) # None}

text_to_speech(q, w) ==
    IF ~q.text_ok
    THEN UNCHANGED vars
    ELSE /\ CanCreate
         /\ IF q.voice_id # None /\ get_audio_path(q.voice_id) = None
            THEN CreateAndRaise("text", "tts_request", w)
            ELSE IF q.tts_model = "qwen" /\ ref_path(q) = None
            THEN CreateAndRaise("text", "tts_request", w)
            ELSE CreateAndLaunch("text", "tts_request",
                                 IF q.voice_id = None THEN q.reference_audio ELSE None,
                                 "tts", << >>, w)

generate_music(valid, w) ==
    IF ~valid
    THEN UNCHANGED vars
    ELSE /\ CanCreate
         /\ CreateAndLaunch("text", "music_generation", None, "music", << >>, w)

\* the form fields of a singing request the handler branches on
SingingRequests == [lyrics_ok : BOOLEAN, melody_file : {None, "tune.mid", "tune.txt"}]

generate_singing(q, w) ==
    IF ~q.lyrics_ok
    THEN UNCHANGED vars
    ELSE /\ CanCreate
         /\ IF q.melody_file = "tune.txt"
            THEN CreateAndRaise("text", "singing_synthesis", w)
            ELSE CreateAndLaunch("text", "singing_synthesis", q.melody_file,
                                 "singing", << >>, w)

mix_audio(tts_job_id, music_job_id, w) ==
    /\ CanCreate
    /\ Mixable(get_job(jobs, disk, tts_job_id), disk, tts_job_id)
    /\ Mixable(get_job(jobs, disk, music_job_id), disk, music_job_id)
    /\ CreateAndLaunch("text", "audio_mix", None, "mix", <<tts_job_id, music_job_id>>, w)

upload_reference_voice(job_id, filename) ==
    /\ get_job(jobs, disk, job_id) # NoJob
    /\ filename \notin disk[job_id].files
    /\ jobs' = CacheAfterGet(jobs, disk, job_id)
    /\ disk' = AddFile(disk, job_id, filename)
    /\ UNCHANGED <<nextId, runs, wrote, faults, call, engine>>

\* request.assignments as the speaker -> reference file map it amounts to
Assignments == UNION {[S -> RefFiles] : S \in SUBSET SpeakerIds}

\* the request passes every check of the handler
Assignable(job_id, assignments) ==
    LET job == get_job(jobs, disk, job_id) IN
    /\ job # NoJob
    /\ job.status = "AWAITING_VOICE_ASSIGNMENT"
    /\ \A sid \in DOMAIN assignments :
          /\ \E i \in DOMAIN job.speakers : job.speakers[i].speaker_id = sid
          /\ assignments[sid] \in disk[job_id].files

\* speaker.assigned_voice_ref = assignment_map[speaker.speaker_id]; updated_at
\* is left alone, so that it lies before a change made here
assignment_map(job, assignments) ==
    LET speakers ==
            [i \in DOMAIN job.speakers |->
                IF job.speakers[i].speaker_id \in DOMAIN assignments
                THEN [job.speakers[i] EXCEPT !.assigned_voice_ref =
                         assignments[job.speakers[i].speaker_id]]
                ELSE job.speakers[i]]
    IN [job EXCEPT !.speakers = speakers,
                   !.updated_at = IF speakers = job.speakers THEN @ ELSE Earlier]

\* the assignments go onto the cached job, which is then saved
RecordAssignments(job_id, assignments, w) ==
    LET new == assignment_map(get_job(jobs, disk, job_id), assignments) IN
    /\ jobs' = Put(jobs, job_id, new)
    /\ disk' = save_job(disk, job_id, new, w)
    /\ wrote' = [wrote EXCEPT ![job_id] = (w = "ok")]
    /\ faults' = Charge(w)

\* request.assignments: each names a speaker and a voice profile or a
\* reference file
AssignmentRequests ==
    UNION {[1..n -> [speaker_id : SpeakerIds,
                     voice_id : VoiceIds \cup {None},
                     reference_audio_filename : RefFiles]] : n \in 0..MaxAssignments}

\* requests that name reference files only
FileRequests ==
    UNION {[1..n -> [speaker_id : SpeakerIds,
                     voice_id : {None},
                     reference_audio_filename : RefFiles]] : n \in 0..MaxAssignments}

\* profile audio the loop has copied into the job's references once it is
\* through the first k assignments
Copied(request, k) ==
    {get_audio_path(request[j].voice_id) :
        j \in {i \in 1..k : request[i].voice_id # None}}

\* the loop raises at assignment i
Refuses(job, files, request, i) ==
    \/ \A k \in DOMAIN job.speakers : job.speakers[k].speaker_id # request[i].speaker_id
    \/ request[i].voice_id # None /\ get_audio_path(request[i].voice_id) = None
    \/ /\ request[i].voice_id = None
       /\ request[i].reference_audio_filename \notin files \cup Copied(request, i - 1)

\* the first assignment the loop raises at, 0 when it raises at none
FirstRefused(job, files, request) ==
    LET bad == {i \in DOMAIN request : Refuses(job, files, request, i)}
    IN IF bad = {} THEN 0 ELSE CHOOSE i \in bad : \A k \in bad : i <= k

\* {a.speaker_id: a.reference_audio_filename for a in request.assignments}
ResolvedMap(request) ==
    [sid \in {request[i].speaker_id : i \in DOMAIN request} |->
        LET last == CHOOSE i \in DOMAIN request :
                        /\ request[i].speaker_id = sid
                        /\ \A k \in DOMAIN request : request[k].speaker_id = sid => k <= i
        IN IF request[last].voice_id # None
           THEN get_audio_path(request[last].voice_id)
           ELSE request[last].reference_audio_filename]

AddFiles(dk, id, fs) ==
    IF fs = {} THEN dk
    ELSE [dk EXCEPT ![id] = [@ EXCEPT !.dir = TRUE, !.files = @ \cup fs]]

assign_voices(job_id, request, w) ==
    LET job == get_job(jobs, disk, job_id)
        n == FirstRefused(job, disk[job_id].files, request)
    IN /\ job # NoJob
       /\ job.status = "AWAITING_VOICE_ASSIGNMENT"
       /\ IF n # 0
          THEN /\ jobs' = CacheAfterGet(jobs, disk, job_id)
               /\ disk' = AddFiles(disk, job_id, Copied(request, n - 1))
               /\ UNCHANGED <<nextId, runs, wrote, faults, call, engine>>
          ELSE LET new == assignment_map(job, ResolvedMap(request))
                   dk == AddFiles(disk, job_id, Copied(request, Len(request)))
               IN /\ Len(runs) < MaxRuns
                  /\ jobs' = Put(jobs, job_id, new)
                  /\ disk' = save_job(dk, job_id, new, w)
                  /\ wrote' = [wrote EXCEPT ![job_id] = (w = "ok")]
                  /\ faults' = Charge(w)
                  /\ runs' = _launch_background_task(
                                NewRun("replace", job_id, ResolvedMap(request), << >>))
                  /\ UNCHANGED <<nextId, call, engine>>

\* variant: the cache entry is dropped and the directory left behind
delete_job_cache_only(job_id) ==
    /\ job_id \in DOMAIN jobs \/ disk[job_id].dir
    /\ jobs' = Drop(jobs, job_id)
    /\ UNCHANGED <<disk, nextId, runs, wrote, faults, call, engine>>

delete_job(job_id) ==
    /\ job_id \in DOMAIN jobs \/ disk[job_id].dir
    /\ jobs' = Drop(jobs, job_id)
    /\ disk' = [disk EXCEPT ![job_id] = NoDir]
    /\ UNCHANGED <<nextId, runs, wrote, faults, call, engine>>

\* variant: a start-up that marks the jobs it finds in mid-stage FAILED
Restart_recovering ==
    /\ nextId > 0
    /\ jobs' = [id \in DOMAIN _load_all_jobs(disk) |->
                  LET job == _load_all_jobs(disk)[id] IN
                  IF job.status \in {"COMPLETED", "FAILED", "AWAITING_VOICE_ASSIGNMENT"}
                  THEN job
                  ELSE [job EXCEPT !.status = "FAILED"]]
    /\ runs' = [r \in DOMAIN runs |->
                  IF Active(r) THEN [runs[r] EXCEPT !.pc = "killed"] ELSE runs[r]]
    /\ wrote' = [id \in JobIds |-> TRUE]
    /\ UNCHANGED <<disk, nextId, faults, call, engine>>

\* the process is stopped and started again: JobManager.__init__
Restart ==
    /\ nextId > 0
    /\ jobs' = _load_all_jobs(disk)
    /\ runs' = [r \in DOMAIN runs |->
                  IF Active(r) THEN [runs[r] EXCEPT !.pc = "killed"] ELSE runs[r]]
    /\ wrote' = [id \in JobIds |-> TRUE]
    /\ UNCHANGED <<disk, nextId, faults, call, engine>>

\* ------------------------------------------------------------------
\* Specification
\* ------------------------------------------------------------------

\* an empty storage directory, no task launched
InitStore ==
    /\ jobs = << >>
    /\ disk = [id \in JobIds |-> NoDir]
    /\ nextId = 0
    /\ runs = << >>
    /\ wrote = [id \in JobIds |-> TRUE]
    /\ faults = 0

Init ==
    /\ InitStore
    /\ call = NoCall
    /\ engine = NewEngine

\* the handlers, job.json writes ending as W allows
Requests(W) ==
    \/ \E f \in Uploads, w \in W : upload_file(f, "fits", w)
    \/ \E q \in PlainTts, w \in W : text_to_speech(q, w)
    \/ \E w \in W : generate_music(TRUE, w)
    \/ \E w \in W : generate_singing([lyrics_ok |-> TRUE, melody_file |-> None], w)
    \/ \E t \in JobIds, m \in JobIds, w \in W : mix_audio(t, m, w)
    \/ \E id \in JobIds, f \in RefFiles : upload_reference_voice(id, f)
    \/ \E id \in JobIds, q \in FileRequests, w \in W : assign_voices(id, q, w)
    \/ \E id \in JobIds : delete_job(id)

\* the background coroutines, each resumed at its await
Analysis(W) ==
    \/ \E r \in RunIds, w \in W : UploadStart(r, w)
    \/ \E r \in RunIds, w \in W : ExtractDone(r, w)
    \/ \E r \in RunIds, w \in W : SeparateDone(r, w)
    \/ \E r \in RunIds, s \in SegmentLists, w \in W : DiarizeDone(r, s, w)
    \/ \E r \in RunIds, w \in W : TranscribeDone(r, w)

Replacement(W) ==
    \/ \E r \in RunIds, w \in W : ReplaceStart(r, w)
    \/ \E r \in RunIds, w \in W : SynthDone(r, w)
    \/ \E r \in RunIds, w \in W : AlignDone(r, w)
    \/ \E r \in RunIds, w \in W : MergeDone(r, w)
    \/ \E r \in RunIds, w \in W : RebuildDone(r, w)

Generation(W) ==
    \/ \E r \in RunIds, w \in W : GenerateStart(r, w)
    \/ \E r \in RunIds, w \in W : GenerateDone(r, w)

Mixing(W) ==
    \/ \E r \in RunIds, w \in W : MixStart(r, w)
    \/ \E r \in RunIds, w \in W : MixDone(r, w)

Common(W) ==
    \/ \E r \in RunIds, w \in W : ExportDone(r, w)
    \/ \E r \in RunIds, t \in ErrTexts, w \in W : WorkerRaises(r, t, w)

\* the application on a disk that takes every write
Next ==
    \/ Requests({"ok"}) /\ nextId' <= MaxJobs
    \/ Analysis({"ok"})
    \/ Replacement({"ok"})
    \/ Generation({"ok"})
    \/ Mixing({"ok"})
    \/ Common({"ok"})

Spec == Init /\ [][Next]_vars

\* ------------------------------------------------------------------
\* The job store alone, under its callers' calls
\* ------------------------------------------------------------------

\* keyword arguments the orchestrator passes to update_job
StoreKwargs ==
    {[speakers |-> get_speakers(s), segments |-> s,
      status |-> "AWAITING_VOICE_ASSIGNMENT", progress |-> Pct(65)] :
        s \in {x \in SegmentLists : Len(x) = 1}}
    \cup {[status |-> "FAILED", error |-> t] : t \in ErrTexts}
    \cup {[status |-> "COMPLETED", progress |-> Pct(100), output_file |-> "final.wav"]}

create_job(input_type, filename, w) ==
    LET id == nextId + 1
        job == JobInfo(input_type, filename)
    IN /\ nextId < MaxIds
       /\ jobs' = Put(jobs, id, job)
       /\ disk' = save_job(disk, id, job, w)
       /\ wrote' = [wrote EXCEPT ![id] = (w = "ok")]
       /\ nextId' = id
       /\ faults' = Charge(w)
       /\ UNCHANGED <<runs, call, engine>>

\* update_job returns
UpdateReturns(id, kwargs, w) ==
    LET u == update_job(jobs, disk, id, kwargs, w) IN
    /\ ~u.raised
    /\ jobs' = u.jobs
    /\ disk' = u.disk
    /\ wrote' = [wrote EXCEPT ![id] = (w = "ok")]
    /\ faults' = Charge(w)
    /\ UNCHANGED <<nextId, runs, call, engine>>

\* the store's part of assign_voices
SaveAssignments(job_id, assignments, w) ==
    /\ Assignable(job_id, assignments)
    /\ RecordAssignments(job_id, assignments, w)
    /\ UNCHANGED <<nextId, runs, call, engine>>

\* a disk that may refuse or cut short a write, in a process that may be
\* stopped and started again
NextStore ==
    \/ \E f \in Uploads, w \in Outcomes :
          create_job(_detect_input_type(f), f, w) /\ nextId' <= MaxJobs
    \/ \E id \in JobIds, k \in StoreKwargs, w \in Outcomes : UpdateReturns(id, k, w)
    \/ \E id \in JobIds, f \in RefFiles : upload_reference_voice(id, f)
    \/ \E id \in JobIds, a \in Assignments, w \in Outcomes : SaveAssignments(id, a, w)
    \/ \E id \in JobIds : delete_job(id)
    \/ Restart

SpecStore == Init /\ [][NextStore]_vars

\* ------------------------------------------------------------------
\* Uploads and their replacement, in a process that may be stopped and
\* started again
\* ------------------------------------------------------------------

NextRestart ==
    \/ \E f \in Uploads : upload_file(f, "fits", "ok") /\ nextId' <= 1
    \/ \E id \in JobIds, f \in RefFiles : upload_reference_voice(id, f)
    \/ \E id \in JobIds, q \in FileRequests : assign_voices(id, q, "ok")
    \/ \E id \in JobIds : delete_job(id)
    \/ Analysis({"ok"})
    \/ Replacement({"ok"})
    \/ Common({"ok"})
    \/ Restart

SpecRestart == Init /\ [][NextRestart]_vars

\* ------------------------------------------------------------------
\* Generation and mixing, with every request a client may send
\* ------------------------------------------------------------------

NextEntry ==
    \/ \E f \in UploadNames, z \in UploadSizes \ {"fits"} : upload_file(f, z, "ok")
    \/ \E q \in TtsRequests : text_to_speech(q, "ok")
    \/ \E v \in BOOLEAN : generate_music(v, "ok")
    \/ \E q \in SingingRequests : generate_singing(q, "ok")
    \/ \E t \in JobIds, m \in JobIds : mix_audio(t, m, "ok")
    \/ \E id \in JobIds : delete_job(id)
    \/ Generation({"ok"})
    \/ Mixing({"ok"})
    \/ Common({"ok"})

SpecEntry == Init /\ [][NextEntry]_vars

\* ------------------------------------------------------------------
\* One upload, with every assignment request a client may send
\* ------------------------------------------------------------------

NextAssign ==
    \/ \E f \in Uploads : upload_file(f, "fits", "ok") /\ nextId' <= 1
    \/ \E id \in JobIds, f \in RefFiles : upload_reference_voice(id, f)
    \/ \E id \in JobIds, q \in AssignmentRequests :
          assign_voices(id, q, "ok") /\ Len(runs') < MaxRuns
    \/ \E id \in JobIds : delete_job(id)
    \/ Analysis({"ok"})
    \/ Replacement({"ok"})
    \/ Common({"ok"})

SpecAssign == Init /\ [][NextAssign]_vars

\* ------------------------------------------------------------------
\* The event loop resumes every task whose awaited call has come back
\* ------------------------------------------------------------------

\* task r is resumed: the call it awaits has returned, or has raised
RunStep(r) ==
    \/ UploadStart(r, "ok")
    \/ ExtractDone(r, "ok")
    \/ SeparateDone(r, "ok")
    \/ \E s \in SegmentLists : DiarizeDone(r, s, "ok")
    \/ TranscribeDone(r, "ok")
    \/ ReplaceStart(r, "ok")
    \/ SynthDone(r, "ok")
    \/ AlignDone(r, "ok")
    \/ MergeDone(r, "ok")
    \/ RebuildDone(r, "ok")
    \/ GenerateStart(r, "ok")
    \/ GenerateDone(r, "ok")
    \/ MixStart(r, "ok")
    \/ MixDone(r, "ok")
    \/ ExportDone(r, "ok")
    \/ \E t \in ErrTexts : WorkerRaises(r, t, "ok")

NextLive ==
    \/ Requests({"ok"}) /\ nextId' <= MaxJobs /\ Len(runs') < MaxRuns
    \/ \E r \in RunIds : RunStep(r)

\* some task has not ended
Ready == \E r \in RunIds : Active(r)

\* a step of some task is possible exactly when some task has not ended
ReadyIsEnabled == Ready <=> ENABLED <<\E r \in RunIds : RunStep(r)>>_vars

\* asyncio runs every task that is ready, and a task is ready once the call
\* it awaits is over: WF_vars(\E r \in RunIds : RunStep(r)), its ENABLED
\* written as Ready
Fairness == []<>(~Ready) \/ []<><<\E r \in RunIds : RunStep(r)>>_vars

SpecLive == Init /\ [][NextLive]_vars /\ Fairness

\* ------------------------------------------------------------------
\* Properties
\* ------------------------------------------------------------------

Ended == {"done", "failed", "escaped", "killed"}

\* the status values a run has written, in order
Statuses(log) ==
    LET f == SelectSeq(log, LAMBDA e : e.status # None)
    IN [i \in DOMAIN f |-> f[i].status]

\* the progress values a run has written, in order
Progresses(log) ==
    LET f == SelectSeq(log, LAMBDA e : e.progress # -1)
    IN [i \in DOMAIN f |-> f[i].progress]

IsPrefix(a, b) == Len(a) <= Len(b) /\ a = SubSeq(b, 1, Len(a))

AnalysisStatuses ==
    <<"EXTRACTING_AUDIO", "SEPARATING", "DIARIZING", "TRANSCRIBING",
      "AWAITING_VOICE_ASSIGNMENT">>

ReplacementStatuses == <<"GENERATING_SPEECH", "ALIGNING", "MERGING", "COMPLETED">>

\* C1: an analysis run in which nothing raised has written to status a prefix
\* of EXTRACTING_AUDIO, SEPARATING, DIARIZING, TRANSCRIBING,
\* AWAITING_VOICE_ASSIGNMENT, and all five once it has gone through its steps.
C1_AnalysisOrder ==
    \A r \in DOMAIN runs :
        (runs[r].kind = "upload" /\ runs[r].exc = None) =>
            /\ IsPrefix(Statuses(runs[r].log), AnalysisStatuses)
            /\ Len(Statuses(runs[r].log)) = Len(runs[r].log)
            /\ (runs[r].pc = "done" /\ runs[r].log # << >>) =>
                   Statuses(runs[r].log) = AnalysisStatuses

C1_Witness ==
    \E r \in DOMAIN runs :
        /\ runs[r].kind = "upload" /\ runs[r].pc = "done" /\ runs[r].exc = None
        /\ Statuses(runs[r].log) = AnalysisStatuses
        /\ runs[r].job \in DOMAIN jobs
        /\ jobs[runs[r].job].status = "AWAITING_VOICE_ASSIGNMENT"

\* C2: a replacement run takes its first step on a job whose status is
\* AWAITING_VOICE_ASSIGNMENT, and, while nothing raises, writes to status a
\* prefix of GENERATING_SPEECH, ALIGNING, MERGING, COMPLETED, output_file being
\* in the update that writes COMPLETED.
C2_ReplacementFromAwaiting ==
    [][\A r \in DOMAIN runs :
          runs[r].kind = "replace" =>
            /\ (runs[r].pc = "start" /\ runs'[r].pc \notin {"start", "done"}) =>
                   get_job(jobs, disk, runs[r].job).status = "AWAITING_VOICE_ASSIGNMENT"
            /\ runs'[r].exc = None =>
                   /\ IsPrefix(Statuses(runs'[r].log), ReplacementStatuses)
                   /\ \A i \in DOMAIN runs'[r].log :
                          runs'[r].log[i].status = "COMPLETED" =>
                              runs'[r].log[i].output_file # None]_vars

\* C3: when a step of a run raises and the job is still there, the job's
\* status becomes FAILED and its error the text of what was raised; a run
\* that has ended writes nothing more.
C3_RaiseMarksFailed ==
    [][\A r \in DOMAIN runs :
          LET id == runs[r].job IN
          /\ runs[r].pc \in Ended => runs'[r] = runs[r]
          /\ (runs[r].pc \notin Ended /\ runs'[r].exc # None) =>
                IF get_job(jobs, disk, id) = NoJob
                THEN runs'[r].pc = "escaped" /\ runs'[r].log = runs[r].log
                ELSE /\ runs'[r].pc = "failed"
                     /\ id \in DOMAIN jobs'
                     /\ jobs'[id].status = "FAILED"
                     /\ jobs'[id].error = runs'[r].exc
                     /\ runs'[r].log[Len(runs'[r].log)].status = "FAILED"]_vars

C3_Witness ==
    \E r \in DOMAIN runs :
        /\ runs[r].pc = "failed" /\ runs[r].exc \in ErrTexts
        /\ runs[r].job \in DOMAIN jobs
        /\ jobs[runs[r].job].status = "FAILED"
        /\ jobs[runs[r].job].error = runs[r].exc

\* C4: a job's status is FAILED exactly when its error is set.
C4_FailedIffError ==
    \A id \in DOMAIN jobs :
        jobs[id].status = "FAILED" <=> jobs[id].error # None

\* C5: once a job's status is COMPLETED or FAILED it stays what it is for as
\* long as the job exists.
C5_Terminal ==
    [][\A id \in DOMAIN jobs :
          jobs[id].status \in {"COMPLETED", "FAILED"} =>
              (id \notin DOMAIN jobs' \/ jobs'[id].status = jobs[id].status)]_vars

\* C6: no two runs are in the middle of their stages on the same job.
C6_OneRunPerJob ==
    \A r1 \in DOMAIN runs, r2 \in DOMAIN runs :
        (r1 # r2 /\ runs[r1].job = runs[r2].job) =>
            ~(runs[r1].pc \notin Ended \cup {"start"} /\ runs[r2].pc \notin Ended \cup {"start"})

\* C7: the progress values one run writes never decrease and lie between
\* 0 and 1, whatever the segments and whichever of them are skipped.
C7_ProgressMonotone ==
    \A r \in DOMAIN runs :
        LET p == Progresses(runs[r].log) IN
        /\ \A i \in DOMAIN p : 0 <= p[i] /\ p[i] <= Pct(100)
        /\ \A i \in DOMAIN p, j \in DOMAIN p : i <= j => p[i] <= p[j]

\* a replacement run that went through two segments, and one that skipped one
C7_Witness ==
    /\ \E r \in DOMAIN runs :
           /\ runs[r].kind = "replace" /\ runs[r].pc = "done"
           /\ Len(runs[r].segments) = MaxSegments
           /\ Len(Progresses(runs[r].log)) = MaxSegments + 4
    /\ \E r \in DOMAIN runs :
           /\ runs[r].kind = "replace" /\ runs[r].pc = "done"
           /\ Len(runs[r].segments) = MaxSegments
           /\ Len(Progresses(runs[r].log)) = MaxSegments + 3

\* C8: a job whose status is COMPLETED names an output file, and the file
\* is in the job's directory.
C8_CompletedHasOutput ==
    \A id \in DOMAIN jobs :
        jobs[id].status = "COMPLETED" =>
            /\ jobs[id].output_file # None
            /\ jobs[id].output_file \in disk[id].files

C8_Witness ==
    /\ \E id \in DOMAIN jobs :
           jobs[id].status = "COMPLETED" /\ jobs[id].output_file = "final.mp4"
    /\ \E id \in DOMAIN jobs :
           jobs[id].status = "COMPLETED" /\ jobs[id].output_file = "tts_output.wav"

\* C9: a cached job whose last write of job.json went through has on disk
\* the serialisation of what the cache holds.
C9_WriteThrough ==
    \A id \in DOMAIN jobs :
        wrote[id] => disk[id].json = model_dump_json(jobs[id])

\* after a failed write elsewhere: an update and recorded assignments on disk
C9_Witness ==
    /\ faults > 0
    /\ \E id \in DOMAIN jobs :
           /\ wrote[id]
           /\ disk[id].json = model_dump_json(jobs[id])
           /\ jobs[id].status = "FAILED"
           /\ \E i \in DOMAIN jobs[id].speakers :
                  jobs[id].speakers[i].assigned_voice_ref # None

\* C10: a job store constructed on the directory as it is holds exactly the
\* jobs whose job.json was last written whole, each equal to the Job that
\* write serialised, and reads no job from a missing or malformed job.json.
C10_FreshStoreRoundTrip ==
    LET fresh == _load_all_jobs(disk) IN
    /\ DOMAIN fresh = {id \in JobIds : disk[id].saved # NoJob}
    /\ \A id \in JobIds : get_job(fresh, disk, id) = disk[id].saved

\* after a restart: a directory with a malformed job.json was passed over and
\* another job came back as an earlier write had left it
C10_Witness ==
    \E a \in JobIds, b \in DOMAIN jobs :
        /\ disk[a].dir /\ disk[a].json = Malformed /\ a \notin DOMAIN jobs
        /\ jobs[b] = disk[b].saved
        /\ jobs[b].status = "COMPLETED" /\ jobs[b].output_file # None

Settled == {"COMPLETED", "FAILED", "AWAITING_VOICE_ASSIGNMENT"}

\* a step in which the process is stopped with a task in mid-flight
Stopped == \E r \in DOMAIN runs : runs[r].pc # "killed" /\ runs'[r].pc = "killed"

\* no task is working on job id
Idle(id) == \A r \in DOMAIN runs : runs[r].job = id => ~Active(r)

\* C11: a restart brings every job back with the status job.json holds and
\* starts no task; a job in PENDING or a mid-stage status that no task works
\* on keeps that status, and gets no task, until it is deleted.
C11_StuckAfterRestart ==
    [][/\ Stopped =>
            /\ Len(runs') = Len(runs)
            /\ \A r \in DOMAIN runs' : runs'[r].pc \in Ended
            /\ \A id \in JobIds :
                   load_job(disk, id) # NoJob =>
                       /\ id \in DOMAIN jobs'
                       /\ jobs'[id].status = load_job(disk, id).status
       /\ \A id \in JobIds :
            LET job == get_job(jobs, disk, id) IN
            (job # NoJob /\ job.status \notin Settled /\ Idle(id)) =>
                /\ \/ get_job(jobs', disk', id) = NoJob
                   \/ get_job(jobs', disk', id).status = job.status
                /\ \A r \in DOMAIN runs' : runs'[r].job = id => runs'[r].pc \in Ended]_vars

\* a task was stopped in mid-stage, and its job is there with that status
C11_Witness ==
    \E r \in DOMAIN runs :
        /\ runs[r].pc = "killed"
        /\ runs[r].job \in DOMAIN jobs
        /\ jobs[runs[r].job].status \in {"TRANSCRIBING", "MERGING"}
        /\ Idle(runs[r].job)

\* C12: the step in which a run ends leaves its job, if the job is still
\* there, in AWAITING_VOICE_ASSIGNMENT, COMPLETED or FAILED; and, every awaited
\* call returning or raising, every run that was started ends.
C12_RunsSettle ==
    /\ [][\A r \in DOMAIN runs' :
             ((r \notin DOMAIN runs \/ runs[r].pc \notin Ended) /\ runs'[r].pc \in Ended) =>
                 LET job == get_job(jobs', disk', runs'[r].job) IN
                 job = NoJob \/ job.status \in Settled]_vars
    /\ \A r \in RunIds :
           (r \in DOMAIN runs) ~> (r \in DOMAIN runs /\ runs[r].pc \in {"done", "failed", "escaped"})

\* an analysis that ended at the assignment stage, a workflow that ended
\* completed, or one that ended failed
C12_Witness ==
    \E r \in DOMAIN runs :
        /\ runs[r].pc \in {"done", "failed"}
        /\ runs[r].log # << >>
        /\ runs[r].job \in DOMAIN jobs
        /\ jobs[runs[r].job].status = runs[r].log[Len(runs[r].log)].status
        /\ jobs[runs[r].job].status \in Settled

\* the handler answers the request with 404 or 400
Rejected(job_id, request) ==
    LET job == get_job(jobs, disk, job_id) IN
    \/ job = NoJob
    \/ job.status # "AWAITING_VOICE_ASSIGNMENT"
    \/ FirstRefused(job, disk[job_id].files, request) # 0

\* C13: an assign-voices request that is rejected leaves the Job as it was in
\* the cache and in job.json, writes nothing into the job's directory and
\* starts no run.
C13_RejectedUntouched ==
    [][\A id \in JobIds, q \in AssignmentRequests :
          (Rejected(id, q) /\ assign_voices(id, q, "ok")) =>
              /\ get_job(jobs', disk', id) = get_job(jobs, disk, id)
              /\ disk'[id] = disk[id]
              /\ runs' = runs]_vars

\* the handler answers the text-to-speech request with 4xx
TtsRejected(q) ==
    \/ ~q.text_ok
    \/ q.voice_id # None /\ get_audio_path(q.voice_id) = None
    \/ q.tts_model = "qwen" /\ ref_path(q) = None

\* a step of an upload, text-to-speech, music or singing handler that ends
\* in a 4xx answer (a mix request answered 4xx is no step at all)
Answered4xx ==
    \/ \E f \in UploadNames, z \in UploadSizes :
          (f \notin Uploads \/ z # "fits") /\ upload_file(f, z, "ok")
    \/ \E q \in TtsRequests : TtsRejected(q) /\ text_to_speech(q, "ok")
    \/ generate_music(FALSE, "ok")
    \/ \E q \in SingingRequests :
          (~q.lyrics_ok \/ q.melody_file = "tune.txt") /\ generate_singing(q, "ok")

\* C14: a request answered 4xx leaves the set of jobs as it was, in the
\* store and in the jobs directory.
C14_RejectedCreatesNothing ==
    [][Answered4xx =>
          /\ DOMAIN jobs' = DOMAIN jobs
          /\ \A id \in JobIds : disk'[id].dir = disk[id].dir]_vars

\* both jobs a mix refers to are there, COMPLETED, with their output on disk
SourcesUsable(src) ==
    \A i \in DOMAIN src : Mixable(get_job(jobs, disk, src[i]), disk, src[i])

\* C15: a mix job is created, and a mix workflow goes past its first step,
\* only in a state where both referenced jobs exist, are COMPLETED and have
\* their output file on disk; no step of a mix run changes a referenced job
\* or its directory.
C15_MixOnlyCompleted ==
    [][/\ \A id \in JobIds :
            (get_job(jobs, disk, id) = NoJob /\ id \in DOMAIN jobs'
                /\ jobs'[id].input_filename = "audio_mix") =>
                \E r \in DOMAIN runs' \ DOMAIN runs :
                    /\ runs'[r].kind = "mix" /\ runs'[r].job = id
                    /\ Len(runs'[r].src) = 2
                    /\ SourcesUsable(runs'[r].src)
       /\ \A r \in DOMAIN runs :
            runs[r].kind = "mix" =>
                /\ (runs[r].pc = "start" /\ runs'[r].pc = "mix") =>
                       SourcesUsable(runs[r].src)
                /\ runs'[r] # runs[r] =>
                       \A i \in DOMAIN runs[r].src :
                           /\ get_job(jobs', disk', runs[r].src[i])
                                = get_job(jobs, disk, runs[r].src[i])
                           /\ disk'[runs[r].src[i]] = disk[runs[r].src[i]]]_vars

\* a mix of two different jobs has completed, both of them as they were
C15_Witness ==
    \E r \in DOMAIN runs :
        /\ runs[r].kind = "mix" /\ runs[r].pc = "done"
        /\ runs[r].src[1] # runs[r].src[2]
        /\ runs[r].job \in DOMAIN jobs
        /\ jobs[runs[r].job].status = "COMPLETED"
        /\ jobs[runs[r].job].output_file = "mixed_output.wav"
        /\ SourcesUsable(runs[r].src)

\* C16: delete_job deletes, and returns true, exactly for a job get_job would
\* have returned; afterwards the job is in neither the cache nor the jobs
\* directory, and every other job and directory is as it was.
C16_DeleteTrueIffExisted ==
    [][\A id \in JobIds :
          /\ get_job(jobs, disk, id) # NoJob => (id \in DOMAIN jobs \/ disk[id].dir)
          /\ delete_job(id) =>
                /\ get_job(jobs, disk, id) # NoJob
                /\ id \notin DOMAIN jobs'
                /\ ~disk'[id].dir
                /\ \A o \in JobIds \ {id} :
                       /\ disk'[o] = disk[o]
                       /\ o \in DOMAIN jobs' <=> o \in DOMAIN jobs
                       /\ o \in DOMAIN jobs => jobs'[o] = jobs[o]]_vars

\* C17: whatever a workflow raises, and wherever, its task ends with the
\* exception logged or the coroutine returned, never with an exception
\* nobody caught; the step in which a run raises changes no other run, and
\* no job or directory but the run's own.
C17_NothingEscapesTask ==
    [][\A r \in DOMAIN runs :
          /\ runs'[r].task # "unhandled"
          /\ runs'[r].pc \in {"done", "failed", "escaped"} => runs'[r].task # "pending"
          /\ (runs[r].exc = None /\ runs'[r].exc # None) =>
                /\ runs'[r].pc = "escaped" => runs'[r].task = "logged"
                /\ (runs'[r].pc = "failed" /\ Reraises(runs[r].kind)) =>
                       runs'[r].task = "logged"
                /\ \A o \in DOMAIN runs \ {r} : runs'[o] = runs[o]
                /\ Len(runs') = Len(runs)
                /\ \A id \in JobIds \ {runs[r].job} :
                       /\ disk'[id] = disk[id]
                       /\ get_job(jobs', disk', id) = get_job(jobs, disk, id)]_vars

\* the update recording FAILED raised in one task and a worker raised in
\* another; both exceptions were logged by the wrapper
C17_Witness ==
    \E r \in DOMAIN runs, o \in DOMAIN runs :
        /\ runs[r].pc = "escaped" /\ runs[r].task = "logged"
        /\ runs[o].pc = "failed" /\ runs[o].task = "logged"
        /\ runs[o].exc \in ErrTexts

\* C18: updated_at of every job is the moment of the job's last change, in
\* the cache and in job.json.
C18_UpdatedAtFresh ==
    \A id \in JobIds :
        /\ id \in DOMAIN jobs => jobs[id].updated_at = Now
        /\ load_job(disk, id) # NoJob => load_job(disk, id).updated_at = Now

ElevenStates ==
    {"PENDING", "EXTRACTING_AUDIO", "SEPARATING", "DIARIZING", "TRANSCRIBING",
     "AWAITING_VOICE_ASSIGNMENT", "GENERATING_SPEECH", "ALIGNING", "MERGING",
     "COMPLETED", "FAILED"}

\* C19: the status of every job, cached or read from job.json, is one of the
\* eleven states, and every status a workflow has written is a member of
\* the status type.
C19_StatusInType ==
    /\ \A id \in JobIds :
           get_job(jobs, disk, id) # NoJob => get_job(jobs, disk, id).status \in ElevenStates
    /\ \A id \in JobIds :
           disk[id].json \notin {NoFile, Malformed} =>
               disk[id].json.status \in {StatusValue[m] : m \in ElevenStates}
    /\ \A r \in DOMAIN runs :
           \A i \in DOMAIN Statuses(runs[r].log) : Statuses(runs[r].log)[i] \in JobStatus

\* the segments of a run whose speaker has a reference, in list order
AssignedSegments(run) ==
    SelectSeq([i \in DOMAIN run.segments |-> i],
              LAMBDA i : run.segments[i].speaker_id \in DOMAIN run.ref_map)

\* C20: a replacement run synthesizes the segments whose speaker has an
\* assignment, in the order of the segment list, and no other segment; the
\* clips it hands to the aligner are exactly those; and a run in which
\* nothing raised goes through GENERATING_SPEECH, ALIGNING, MERGING to
\* COMPLETED whether or not it skipped segments.
C20_UnassignedSkipped ==
    \A r \in DOMAIN runs :
        runs[r].kind = "replace" =>
            /\ IsPrefix(runs[r].clips, AssignedSegments(runs[r]))
            /\ runs[r].pc = "synth" =>
                   IsPrefix(Append(runs[r].clips, runs[r].idx), AssignedSegments(runs[r]))
            /\ (runs[r].pc \in {"align", "merge", "rebuild", "export"}
                    \/ (runs[r].pc = "done" /\ runs[r].log # << >>)) =>
                   runs[r].clips = AssignedSegments(runs[r])
            /\ (runs[r].pc = "done" /\ runs[r].log # << >> /\ runs[r].exc = None) =>
                   Statuses(runs[r].log) = ReplacementStatuses

\* a run that skipped its first segment, synthesized its second and completed
C20_Witness ==
    \E r \in DOMAIN runs :
        /\ runs[r].kind = "replace" /\ runs[r].pc = "done" /\ runs[r].exc = None
        /\ Len(runs[r].segments) = 2
        /\ runs[r].clips = <<2>>
        /\ Statuses(runs[r].log) = ReplacementStatuses
        /\ runs[r].job \in DOMAIN jobs
        /\ jobs[runs[r].job].status = "COMPLETED"

\* ------------------------------------------------------------------
\* The per-segment loops of the transcriber and the aligner
\* ------------------------------------------------------------------

\* an awaited call raises
Raised == "raised"

\* what the recogniser may make of a slice
Texts == {"hello", " hi ", ""}

\* str.strip
strip(text) == IF text = " hi " THEN "hi" ELSE text

\* the source audio as transcribe_segments finds it
AudioFiles == {"ok", "missing", "unreadable"}

\* the diarized segments as the orchestrator hands them over
SegmentsIn(list) == [i \in DOMAIN list |-> [speaker_id |-> list[i].speaker_id, text |-> ""]]

\* transcribe_segments up to its loop: FileNotFoundError, the early return
\* for no segments, sf.read of the whole file
transcribe_segments ==
    /\ call.fn = "transcribe_segments" /\ call.pc = "start"
    /\ call' = IF call.audio = "missing" THEN [call EXCEPT !.pc = "end", !.ret = Raised]
               ELSE IF call.segments = << >> THEN [call EXCEPT !.pc = "end", !.ret = "returned"]
               ELSE IF call.audio = "unreadable" THEN [call EXCEPT !.pc = "end", !.ret = Raised]
               ELSE [call EXCEPT !.pc = "loop"]
    /\ UNCHANGED <<store, engine>>

\* variant: a loop body without try/except
_transcribe_segment_bare(result) ==
    /\ call.fn = "transcribe_segments" /\ call.pc = "loop"
    /\ LET i == call.idx + 1 IN
       call' = IF result = Raised
               THEN [call EXCEPT !.results = Append(@, result), !.pc = "end", !.ret = Raised]
               ELSE [call EXCEPT !.segments[i].text = strip(result),
                                 !.results = Append(@, result),
                                 !.idx = i,
                                 !.pc = IF i = Len(call.segments) THEN "end" ELSE "loop",
                                 !.ret = IF i = Len(call.segments) THEN "returned" ELSE None]
    /\ UNCHANGED <<store, engine>>

\* one turn of the loop: await _transcribe_segment, which returns a text or
\* raises; after the last turn the function returns
_transcribe_segment(result) ==
    /\ call.fn = "transcribe_segments" /\ call.pc = "loop"
    /\ LET i == call.idx + 1 IN
       call' = [call EXCEPT !.segments[i].text = IF result = Raised THEN "" ELSE strip(result),
                            !.results = Append(@, result),
                            !.idx = i,
                            !.pc = IF i = Len(call.segments) THEN "end" ELSE "loop",
                            !.ret = IF i = Len(call.segments) THEN "returned" ELSE None]
    /\ UNCHANGED <<store, engine>>

\* speech_segment_dicts as process_voice_replacement builds them
ClipDicts ==
    UNION {[1..n -> [audio_path : {"clip.wav"},
                     target_start : {0, 1},
                     target_end : {1},
                     speaker_id : {"SPEAKER_00"},
                     aligned_path : {None}]] : n \in 0..MaxSegments}

\* f"aligned_{speaker_id}_{idx:04d}.wav"
aligned_name(speaker_id, idx) == <<"aligned", speaker_id, idx>>

\* align_all_segments up to its loop
align_all_segments ==
    /\ call.fn = "align_all_segments" /\ call.pc = "start"
    /\ call' = IF call.segments = << >>
               THEN [call EXCEPT !.pc = "end", !.ret = "returned"]
               ELSE [call EXCEPT !.pc = "loop"]
    /\ UNCHANGED <<store, engine>>

\* one turn of the loop: a segment of no duration is passed on as it is,
\* any other is handed to align_segment, which returns or raises
align_turn(result) ==
    /\ call.fn = "align_all_segments" /\ call.pc = "loop"
    /\ LET i == call.idx + 1
           seg == call.segments[i]
           skipped == seg.target_end - seg.target_start <= 0
       IN /\ skipped => result = "skipped"
          /\ ~skipped => result # "skipped"
          /\ call' = [call EXCEPT
                        !.segments[i].aligned_path =
                            IF skipped \/ result = Raised
                            THEN seg.audio_path
                            ELSE aligned_name(seg.speaker_id, call.idx),
                        !.results = Append(@, result),
                        !.idx = i,
                        !.pc = IF i = Len(call.segments) THEN "end" ELSE "loop",
                        !.ret = IF i = Len(call.segments) THEN "returned" ELSE None]
    /\ UNCHANGED <<store, engine>>

InitLoops ==
    /\ InitStore
    /\ engine = NewEngine
    /\ \/ \E a \in AudioFiles, s \in SegmentLists :
             call = [fn |-> "transcribe_segments", pc |-> "start", audio |-> a,
                     segments |-> SegmentsIn(s), idx |-> 0, results |-> << >>, ret |-> None]
       \/ \E s \in ClipDicts :
             call = [fn |-> "align_all_segments", pc |-> "start",
                     segments |-> s, idx |-> 0, results |-> << >>, ret |-> None]

NextLoops ==
    \/ transcribe_segments
    \/ \E t \in Texts \cup {Raised} : _transcribe_segment(t)
    \/ align_all_segments
    \/ \E t \in {"aligned", "skipped", Raised} : align_turn(t)

SpecLoops == InitLoops /\ [][NextLoops]_vars

\* C21: a segment whose transcription raised has the empty text and a segment
\* whose alignment raised keeps its unaligned clip as aligned path; every
\* other segment the loop has passed has its own result (the stripped text,
\* the aligned file, or the clip itself when it has no duration); segments
\* the loop has not reached are as they came in; and the function raises
\* only before its loop, never because a segment failed, so that the
\* workflow awaiting it goes on.
C21_SegmentFailuresLocal ==
    /\ call.fn = "transcribe_segments" =>
          /\ \A i \in DOMAIN call.segments :
                call.segments[i].text =
                    IF i > call.idx \/ call.results[i] = Raised THEN ""
                    ELSE strip(call.results[i])
          /\ call.ret = Raised => call.idx = 0 /\ call.audio # "ok"
          /\ call.idx = Len(call.segments) /\ call.pc # "start" /\ call.audio = "ok" =>
                call.ret = "returned"
    /\ call.fn = "align_all_segments" =>
          /\ \A i \in DOMAIN call.segments :
                call.segments[i].aligned_path =
                    IF i > call.idx THEN None
                    ELSE IF call.results[i] \in {Raised, "skipped"}
                         THEN call.segments[i].audio_path
                         ELSE aligned_name(call.segments[i].speaker_id, i - 1)
          /\ call.ret # Raised
          /\ call.idx = Len(call.segments) /\ call.pc # "start" => call.ret = "returned"

\* a transcription that failed on its first segment and went on to the second
C21_Witness ==
    /\ call.fn = "transcribe_segments" /\ call.ret = "returned"
    /\ Len(call.results) = 2
    /\ call.results[1] = Raised /\ call.results[2] = " hi "
    /\ call.segments[1].text = "" /\ call.segments[2].text = "hi"

\* ------------------------------------------------------------------
\* AudioAligner.align_segment
\*
\* Clips are kept by their length in samples, durations in hundredths of a
\* second, so that duration * sr is exact.
\* ------------------------------------------------------------------

MaxSamples == 16
MaxDuration == 30

SampleRates == {20, 50}
Durations == 1..MaxDuration
Lengths == 0..MaxSamples

\* _DURATION_TOLERANCE, in hundredths of a second
_DURATION_TOLERANCE == 5
\* _MIN_STRETCH and _MAX_STRETCH, in tenths
_MIN_STRETCH == 5
_MAX_STRETCH == 25

Min(a, b) == IF a < b THEN a ELSE b

Max(a, b) == IF a > b THEN a ELSE b

\* int(x) of x = num / den, den > 0: towards zero
int(num, den) == IF num >= 0 THEN num \div den ELSE -((-num) \div den)

\* length of audio[:k]; a negative k counts from the end
Slice(n, k) == IF k >= 0 THEN Min(n, k) ELSE Max(0, n + k)

\* length of audio[k:], k >= 0
SliceFrom(n, k) == Max(0, n - k)

\* variant: a clip that is already long enough is passed on as it is
pad_or_trim_pad_only(current_length, target_length) ==
    IF current_length >= target_length THEN current_length
    ELSE current_length + (target_length - current_length)

\* pad_or_trim, on lengths: the clip itself, its first target_length
\* samples, or the clip and the silence appended to it
pad_or_trim(current_length, target_length) ==
    IF current_length = target_length THEN current_length
    ELSE IF current_length > target_length THEN Slice(current_length, target_length)
    ELSE current_length + (target_length - current_length)

\* abs(actual_duration - target_duration) <= _DURATION_TOLERANCE, with
\* actual_duration = len(audio) / sr
WithinTolerance(n, d, sr) ==
    LET diff == 100 * n - d * sr
    IN (IF diff < 0 THEN -diff ELSE diff) <= _DURATION_TOLERANCE * sr

\* _MIN_STRETCH <= actual_duration / target_duration <= _MAX_STRETCH
CanStretch(n, d, sr) ==
    /\ _MIN_STRETCH * d * sr <= 1000 * n
    /\ 1000 * n <= _MAX_STRETCH * d * sr

\* the branch align_segment takes
Branch(n, d, sr) ==
    IF WithinTolerance(n, d, sr) THEN "tolerance"
    ELSE IF CanStretch(n, d, sr) THEN "stretch"
    ELSE "fallback"

\* length of the clip align_segment writes; `stretched` is the length of
\* what librosa.effects.time_stretch gives back
aligned_length(n, d, sr, stretched) ==
    LET target_samples == int(d * sr, 100)
    IN IF Branch(n, d, sr) = "stretch"
       THEN pad_or_trim(stretched, target_samples)
       ELSE pad_or_trim(n, target_samples)

\* one application to the clip at hand: the aligned clip is written and
\* takes its place
align_segment(stretched) ==
    /\ call.fn = "align_segment" /\ call.ret # Raised /\ Len(call.written) < 2
    /\ call' = [call EXCEPT
                  !.len = aligned_length(call.len, call.target_duration, call.sr, stretched),
                  !.written = Append(@, aligned_length(call.len, call.target_duration,
                                                       call.sr, stretched)),
                  !.branches = Append(@, Branch(call.len, call.target_duration, call.sr)),
                  !.ret = "returned"]
    /\ UNCHANGED <<store, engine>>

\* sf.read or the stretch raises: nothing is written
align_segment_raises ==
    /\ call.fn = "align_segment" /\ call.ret # Raised /\ Len(call.written) < 2
    /\ call' = [call EXCEPT !.ret = Raised]
    /\ UNCHANGED <<store, engine>>

InitAlign ==
    /\ InitStore
    /\ engine = NewEngine
    /\ \E n \in Lengths, d \in Durations, sr \in SampleRates :
          call = [fn |-> "align_segment", len |-> n, target_duration |-> d, sr |-> sr,
                  written |-> << >>, branches |-> << >>, ret |-> None]

NextAlign ==
    \/ \E stretched \in Lengths : align_segment(stretched)
    \/ align_segment_raises

SpecAlign == InitAlign /\ [][NextAlign]_vars

\* C22: every clip align_segment writes has k samples, where k is the whole
\* number with k <= target_duration * sr < k + 1, on each of its three
\* branches; so a second application with the same target duration writes a
\* clip of the same length as the first.
C22_AlignedLength ==
    call.fn = "align_segment" =>
        /\ \A i \in DOMAIN call.written :
              /\ 100 * call.written[i] <= call.target_duration * call.sr
              /\ call.target_duration * call.sr < 100 * (call.written[i] + 1)
        /\ Len(call.written) = 2 => call.written[1] = call.written[2]

\* a clip stretched to its target and aligned once more
C22_Witness ==
    /\ call.fn = "align_segment"
    /\ call.branches = <<"stretch", "tolerance">>
    /\ call.written = <<7, 7>>
    /\ call.target_duration = 15 /\ call.sr = 50

\* ------------------------------------------------------------------
\* AudioMerger.merge_speech_and_music
\*
\* Times are in tenths of a second.  The speech canvas is kept by the set
\* of its indices a clip has been added to.
\* ------------------------------------------------------------------

MaxTotal == 6
MaxClips == 2

MergeRates == {4, 10}
TotalDurations == 0..MaxTotal
StartTimes == {-10, -5, 0, 5, 10}
ClipLengths == {0, 1, 3}
MusicLengths == {0, 2, 8}

\* the dicts align_all_segments hands on, each with the clip its
\* aligned_path names, if the file is there
SpeechSegments ==
    UNION {[1..n -> [target_start : StartTimes, len : ClipLengths, exists : BOOLEAN]] :
              n \in 0..MaxClips}

\* _load_and_fit: silence for a missing file, else the first
\* target_samples samples, or the track and the silence appended to it
_load_and_fit(exists, music_len, target_samples) ==
    IF ~exists THEN target_samples
    ELSE IF music_len >= target_samples THEN Slice(music_len, target_samples)
    ELSE music_len + (target_samples - music_len)

\* the clip after the two clamps, and where it is to go
Clamped(seg, total_samples, sr) ==
    LET start_sample == int(seg.target_start * sr, 10)
        end_sample == start_sample + seg.len
        len1 == IF start_sample < 0 THEN SliceFrom(seg.len, -start_sample) ELSE seg.len
        start1 == IF start_sample < 0 THEN 0 ELSE start_sample
        len2 == IF end_sample > total_samples THEN Slice(len1, total_samples - start1) ELSE len1
    IN [start |-> start1, len |-> len2]

\* indices of speech_canvas[start:start + len]
CanvasSlice(start, len, total_samples) ==
    {i \in 0..(total_samples - 1) : start <= i /\ i < start + len}

\* numpy adds an array of length n in place to a slice of length k
Broadcasts(n, k) == n = k \/ n = 1

\* total_samples = int(total_duration * sr); the canvas; the music
merge_speech_and_music ==
    /\ call.fn = "merge_speech_and_music" /\ call.pc = "start"
    /\ LET total_samples == int(call.total_duration * call.sr, 10) IN
       call' = [call EXCEPT !.pc = "loop",
                            !.total_samples = total_samples,
                            !.music = _load_and_fit(call.music_exists, call.music, total_samples)]
    /\ UNCHANGED <<store, engine>>

\* one turn of the loop over speech_segments
stamp ==
    /\ call.fn = "merge_speech_and_music" /\ call.pc = "loop"
    /\ call.idx < Len(call.speech_segments)
    /\ LET seg == call.speech_segments[call.idx + 1]
           c == Clamped(seg, call.total_samples, call.sr)
           slice == CanvasSlice(c.start, c.len, call.total_samples)
       IN call' =
            IF ~seg.exists \/ c.len = 0
            THEN [call EXCEPT !.idx = @ + 1, !.stamped = Append(@, {})]
            ELSE IF Broadcasts(c.len, Cardinality(slice))
            THEN [call EXCEPT !.idx = @ + 1, !.stamped = Append(@, slice)]
            ELSE [call EXCEPT !.pc = "end", !.ret = Raised]
    /\ UNCHANGED <<store, engine>>

\* length of the result of a numpy operation on two arrays, -1 when their
\* shapes do not go together
BroadcastLen(a, b) ==
    IF a = b THEN a ELSE IF a = 1 THEN b ELSE IF b = 1 THEN a ELSE -1

\* _apply_ducking, on lengths: the mask over the canvas, smoothed by
\* np.convolve(mode="same") when the window has more than one sample, and
\* music * gain; -1 when it raises
_apply_ducking(speech, music, sr) ==
    LET window_size == Max(1, int(2 * sr, 100))
        gain == IF window_size > 1 THEN Max(speech, window_size) ELSE speech
    IN IF window_size > 1 /\ speech = 0 THEN -1 ELSE BroadcastLen(music, gain)

\* ducking, mix, normalisation, sf.write
mix_and_write ==
    /\ call.fn = "merge_speech_and_music" /\ call.pc = "loop"
    /\ call.idx = Len(call.speech_segments)
    /\ LET ducked_music == _apply_ducking(call.total_samples, call.music, call.sr)
           mixed == IF ducked_music = -1 THEN -1
                    ELSE BroadcastLen(call.total_samples, ducked_music)
       IN call' = IF mixed <= 0 THEN [call EXCEPT !.pc = "end", !.ret = Raised]
                  ELSE [call EXCEPT !.pc = "end", !.ret = "returned", !.out = mixed]
    /\ UNCHANGED <<store, engine>>

InitMerge ==
    /\ InitStore
    /\ engine = NewEngine
    /\ \E t \in TotalDurations, sr \in MergeRates, m \in MusicLengths, e \in BOOLEAN,
          s \in SpeechSegments :
          call = [fn |-> "merge_speech_and_music", pc |-> "start",
                  total_duration |-> t, sr |-> sr, music_exists |-> e, music |-> m,
                  speech_segments |-> s,
                  total_samples |-> 0, idx |-> 0, stamped |-> << >>, out |-> 0,
                  ret |-> None]

NextMerge ==
    \/ merge_speech_and_music
    \/ stamp
    \/ mix_and_write

SpecMerge == InitMerge /\ [][NextMerge]_vars

\* where a clip of the given length lies when it starts at start_sample
ClipSpan(seg, sr) ==
    {i \in -30..30 : int(seg.target_start * sr, 10) <= i
                     /\ i < int(seg.target_start * sr, 10) + seg.len}

\* C23: what the merger adds to the canvas for a segment is the part of the
\* clip that lies on the canvas, 0 <= i < total_samples: nothing before
\* index 0, nothing past the end, nothing at all for a clip wholly before or
\* wholly after the canvas; and no clip makes the merge fail.
C23_StampWithinCanvas ==
    call.fn = "merge_speech_and_music" =>
        /\ \A k \in DOMAIN call.stamped :
              /\ call.stamped[k] \subseteq 0..(call.total_samples - 1)
              /\ call.speech_segments[k].exists =>
                    call.stamped[k] =
                        ClipSpan(call.speech_segments[k], call.sr)
                            \cap 0..(call.total_samples - 1)
        /\ call.ret = Raised => call.idx = Len(call.speech_segments)

\* round(x) of x = num / den >= 0: to the nearest whole number, a tie to
\* the even one
round(num, den) ==
    LET q == num \div den
        r == num % den
    IN IF 2 * r < den THEN q
       ELSE IF 2 * r > den THEN q + 1
       ELSE IF q % 2 = 0 THEN q ELSE q + 1

\* C24: the output of a merge with total duration T and sample rate R has
\* exactly round(T * R) samples, whatever the length of the music track and
\* however many segments there are and wherever they lie.
C24_MixLengthLaw ==
    call.fn = "merge_speech_and_music" /\ call.ret = "returned" =>
        call.out = round(call.total_duration * call.sr, 10)

\* ------------------------------------------------------------------
\* AudioMixer.mix
\*
\* Tracks are kept by their length in samples at the mixer's rate, the
\* delay in tenths of a second.
\* ------------------------------------------------------------------

MaxTts == 4
MaxMusic == 6

MixerRates == {4, 10}
TtsLengths == 0..MaxTts
TrackLengths == 0..MaxMusic
Delays == {-5, 0, 5, 10, 20}

\* variant: the delayed track is padded when short and never cut
_apply_delay_and_fit_uncut(audio, delay_samples, target_samples) ==
    IF delay_samples <= 0
    THEN Max(audio, target_samples)
    ELSE Max(delay_samples + audio, target_samples)

\* _apply_delay_and_fit, on lengths
_apply_delay_and_fit(audio, delay_samples, target_samples) ==
    IF delay_samples <= 0
    THEN IF audio >= target_samples THEN Slice(audio, target_samples)
         ELSE audio + (target_samples - audio)
    ELSE LET delayed_audio == delay_samples + audio
         IN IF delayed_audio >= target_samples THEN Slice(delayed_audio, target_samples)
            ELSE delayed_audio + (target_samples - delayed_audio)

\* _apply_crossfade, on lengths: a copy, faded in place; -1 when the
\* fade-out raises (a window of no samples on a track of more than one)
_apply_crossfade(audio, start_offset, sr) ==
    LET fade_samples == int(5 * sr, 10)
    IN IF fade_samples = 0 /\ audio > 0 THEN -1 ELSE audio

\* mix up to the worker thread: the checks of its arguments
mix ==
    /\ call.fn = "mix" /\ call.pc = "start"
    /\ call' = IF ~call.tts_exists \/ ~call.music_exists \/ call.music_delay < 0
               THEN [call EXCEPT !.pc = "end", !.ret = Raised]
               ELSE [call EXCEPT !.pc = "_mix_sync"]
    /\ UNCHANGED <<store, engine>>

\* _mix_sync and the write of its result
_mix_sync ==
    /\ call.fn = "mix" /\ call.pc = "_mix_sync"
    /\ LET target_samples == call.tts_audio
           delay_samples == int(call.music_delay * call.sr, 10)
           music_fitted == _apply_delay_and_fit(call.music_audio, delay_samples, target_samples)
           music_with_fade == _apply_crossfade(music_fitted, delay_samples, call.sr)
           mixed == IF music_with_fade = -1 THEN -1
                    ELSE BroadcastLen(call.tts_audio, music_with_fade)
       IN call' = IF mixed <= 0 THEN [call EXCEPT !.pc = "end", !.ret = Raised]
                  ELSE [call EXCEPT !.pc = "end", !.ret = "returned", !.out = mixed,
                                    !.delay_samples = delay_samples]
    /\ UNCHANGED <<store, engine>>

InitMix ==
    /\ InitStore
    /\ engine = NewEngine
    /\ \E t \in TtsLengths, m \in TrackLengths, d \in Delays, sr \in MixerRates,
          te \in BOOLEAN, me \in BOOLEAN :
          call = [fn |-> "mix", pc |-> "start", tts_exists |-> te, music_exists |-> me,
                  tts_audio |-> t, music_audio |-> m, music_delay |-> d, sr |-> sr,
                  delay_samples |-> 0, out |-> 0, ret |-> None]

NextMix ==
    \/ mix
    \/ _mix_sync

SpecMix == InitMix /\ [][NextMix]_vars

MaxTurns == 3

\* min_duration and gap_threshold as process_upload passes them
MinDuration == 5
GapThreshold == 3

TurnTimes == {0, 5, 10, 11, 13, 20}

\* the turns diarize makes, with no text yet, in any order
Turns ==
    {s \in [speaker_id : {"SPEAKER_00", "SPEAKER_01"}, start_time : TurnTimes,
            end_time : TurnTimes, text : {<< >>}] :
        s.start_time < s.end_time}

TurnLists == UNION {[1..n -> Turns] : n \in 0..MaxTurns}

\* x put behind every element of the sorted list acc that does not start
\* after it
InsertStable(acc, x) ==
    LET k == Cardinality({i \in DOMAIN acc : acc[i].start_time <= x.start_time})
    IN SubSeq(acc, 1, k) \o <<x>> \o SubSeq(acc, k + 1, Len(acc))

RECURSIVE SortInto(_, _)
SortInto(acc, rest) ==
    IF rest = << >> THEN acc
    ELSE SortInto(InsertStable(acc, Head(rest)), Tail(rest))

\* variant: the input is taken to be sorted already
sorted_asis(segments) == segments

\* sorted(segments, key=lambda s: s.start_time)
sorted(segments) == SortInto(<< >>, segments)

\* variant: only gaps smaller than the threshold are closed
Mergeable_strict(current, segment, gap_threshold) ==
    /\ segment.speaker_id = current.speaker_id
    /\ segment.start_time - current.end_time < gap_threshold

\* same_speaker and gap <= gap_threshold
Mergeable(current, segment, gap_threshold) ==
    /\ segment.speaker_id = current.speaker_id
    /\ segment.start_time - current.end_time <= gap_threshold

\* the current segment extended by the next one
Extend(current, segment) ==
    [current EXCEPT !.end_time = Max(@, segment.end_time),
                    !.text = IF segment.text # << >> THEN @ \o segment.text ELSE @]

\* the loop over sorted_segments[1:]
RECURSIVE MergeLoop(_, _, _, _)
MergeLoop(rest, current, merged, gap_threshold) ==
    IF rest = << >> THEN Append(merged, current)
    ELSE IF Mergeable(current, Head(rest), gap_threshold)
         THEN MergeLoop(Tail(rest), Extend(current, Head(rest)), merged, gap_threshold)
         ELSE MergeLoop(Tail(rest), Head(rest), Append(merged, current), gap_threshold)

\* `merged`, the list before the filter
MergedList(segments, gap_threshold) ==
    IF segments = << >> THEN << >>
    ELSE \* bound once: the sorted list is used twice
         LET s == sorted(segments)
         IN MergeLoop(Tail(s), Head(s), << >>, gap_threshold)

LongEnough(seg, min_duration) == seg.end_time - seg.start_time >= min_duration

merge_short_segments(segments, min_duration, gap_threshold) ==
    SelectSeq(MergedList(segments, gap_threshold),
              LAMBDA seg : LongEnough(seg, min_duration))

\* transcribe_segments as far as the list goes: the same segments in the
\* same order, each with the text recognised for it
Transcribed(segments) ==
    [i \in DOMAIN segments |-> [segments[i] EXCEPT !.text = <<"t">>]]

\* process_upload from the diarizer's turns to the segments it stores
process_upload_segments ==
    /\ call.fn = "merge_short_segments" /\ call.pc = "start"
    /\ \E out \in {merge_short_segments(call.input, MinDuration, GapThreshold)} :
          call' = [call EXCEPT !.pc = "stored",
                               !.merged = MergedList(call.input, GapThreshold),
                               !.passes = <<out>>,
                               !.stored = Transcribed(out)]
    /\ UNCHANGED <<store, engine>>

\* the pass applied to its own output
merge_again ==
    /\ call.fn = "merge_short_segments" /\ call.pc = "stored"
    /\ Len(call.passes) < 3
    /\ call' = [call EXCEPT !.passes =
                   Append(@, merge_short_segments(call.passes[Len(call.passes)],
                                                  MinDuration, GapThreshold))]
    /\ UNCHANGED <<store, engine>>

InitDiarize ==
    /\ InitStore
    /\ engine = NewEngine
    /\ \E s \in TurnLists :
          call = [fn |-> "merge_short_segments", pc |-> "start", input |-> s,
                  merged |-> << >>, passes |-> << >>, stored |-> << >>]

NextDiarize ==
    \/ process_upload_segments
    \/ merge_again

SpecDiarize == InitDiarize /\ [][NextDiarize]_vars

\* sorted by start_time ascending, every segment of at least min_duration
SortedAndLong(list) ==
    /\ \A i, j \in DOMAIN list : i < j => list[i].start_time <= list[j].start_time
    /\ \A i \in DOMAIN list :
          /\ list[i].end_time - list[i].start_time >= MinDuration
          /\ list[i].start_time < list[i].end_time

\* C26: whatever the input list, the list merge_short_segments returns is
\* sorted by start_time ascending and each of its segments lasts at least
\* 0.5 s, so starts before it ends; and so is the segment list process_upload
\* stores on the job.
C26_SortedNonEmpty ==
    call.fn = "merge_short_segments" =>
        /\ \A p \in DOMAIN call.passes : SortedAndLong(call.passes[p])
        /\ SortedAndLong(call.stored)
        /\ call.pc = "stored" => Len(call.stored) = Len(call.passes[1])

\* an input out of order with a turn too short to keep
C26_Witness ==
    /\ call.fn = "merge_short_segments" /\ call.pc = "stored"
    /\ Len(call.input) = 3
    /\ call.input[1].start_time > call.input[2].start_time
    /\ Len(call.merged) = 3
    /\ Len(call.stored) = 2

\* two neighbours of one speaker no further apart than the threshold
CloseNeighbours(list) ==
    {i \in 1..(Len(list) - 1) :
        /\ list[i].speaker_id = list[i + 1].speaker_id
        /\ list[i + 1].start_time - list[i].end_time <= GapThreshold}

SpeakersMatchSegments(job) ==
    /\ \A i \in DOMAIN job.segments : \E k \in DOMAIN job.speakers :
          job.speakers[k].speaker_id = job.segments[i].speaker_id
    /\ \A k \in DOMAIN job.speakers :
          /\ \E i \in DOMAIN job.segments :
                job.segments[i].speaker_id = job.speakers[k].speaker_id
          /\ job.speakers[k].label = <<"Speaker", k>>
    /\ \A k, l \in DOMAIN job.speakers :
          k < l => \E i \in DOMAIN job.segments :
                      /\ job.segments[i].speaker_id = job.speakers[k].speaker_id
                      /\ \A j \in 1..i : job.segments[j].speaker_id # job.speakers[l].speaker_id

\* C27: in every state, of every job in the cache and of every job.json on
\* disk, each segment's speaker_id is the id of one of the job's speakers,
\* and the speakers are exactly the speakers of the stored segments, the
\* n-th to appear first labelled "Speaker n"; there is no state in which a
\* job has its segments and not yet the speakers that go with them.
C27_SpeakerClosure ==
    /\ \A id \in DOMAIN jobs : SpeakersMatchSegments(jobs[id])
    /\ \A id \in DOMAIN disk :
          disk[id].json.kind = "json" => SpeakersMatchSegments(disk[id].json)

\* an analysis that heard SPEAKER_01 first
C27_Witness ==
    \E id \in DOMAIN jobs :
        /\ jobs[id].status = "AWAITING_VOICE_ASSIGNMENT"
        /\ Len(jobs[id].segments) = 2
        /\ jobs[id].segments[1].speaker_id = "SPEAKER_01"
        /\ jobs[id].segments[2].speaker_id = "SPEAKER_00"
        /\ Len(jobs[id].speakers) = 2
        /\ jobs[id].speakers[1].speaker_id = "SPEAKER_01"
        /\ jobs[id].speakers[1].label = <<"Speaker", 1>>
        /\ disk[id].json.kind = "json"
        /\ Len(disk[id].json.speakers) = 2
        /\ disk[id].json.speakers[2].speaker_id = "SPEAKER_00"

\* neither a cache entry nor a job.json
Gone(js, dk, id) == id \notin DOMAIN js /\ dk[id].json = NoFile

\* C28: delete_job leaves neither a cache entry nor a job.json, and an id
\* that was given out and has neither stays so for ever: no step brings back
\* the cache entry or the job.json, get_job finds nothing, the list of jobs
\* does not hold it, and a background task still running for the job gets
\* no update through: where it calls update_job the call raises "Job not
\* found", in the except clause too, so that the job is not even marked
\* FAILED, whatever the task has written into the job's directory.
C28_DeletedStaysDeleted ==
    [][\A id \in JobIds :
          /\ delete_job(id) => Gone(jobs', disk', id)
          /\ id <= nextId /\ Gone(jobs, disk, id) =>
                /\ Gone(jobs', disk', id)
                /\ get_job(jobs', disk', id) = NoJob
                /\ \A r \in DOMAIN runs :
                      runs[r].job = id /\ runs'[r] # runs[r] =>
                          /\ runs'[r].log = runs[r].log
                          /\ runs'[r].pc # "failed"
                          /\ runs'[r].exc # None => runs'[r].pc = "escaped"]_vars

\* a task that went on after its job was deleted: it has made the job's
\* directory again, its update was refused, and the job is still gone
C28_Witness ==
    \E r \in DOMAIN runs :
        /\ runs[r].pc = "escaped" /\ runs[r].exc = "Job not found"
        /\ Gone(jobs, disk, runs[r].job)
        /\ disk[runs[r].job].dir

\* ------------------------------------------------------------------
\* RealtimeAudioEngine and its control socket
\* ------------------------------------------------------------------

\* profiles of the voice library: one with its audio file, one without, and
\* an id the library does not hold
RtVoices == {"voice_1", "voice_2", "voice_9"}

\* what sounddevice does when start is called: the module is missing,
\* sd.Stream raises, stream.start raises, or the stream runs
StartOutcomes == {"ok", "no_sounddevice", "open_fails", "start_fails"}

\* what stream.stop does
StopOutcomes == {"ok", "stop_fails"}

\* set_voice: the engine afterwards, and the error raised, if any
set_voice(eng, voice_id, exists) ==
    IF ~exists THEN [engine |-> eng, exc |-> "Voice audio not found"]
    ELSE [engine |-> [eng EXCEPT !.current_voice_id = voice_id], exc |-> None]

\* start: is_processing is set before the stream is made
start(eng, outcome) ==
    IF eng.is_processing THEN [engine |-> eng, exc |-> "Audio processing already started"]
    ELSE IF eng.current_voice_id = None THEN [engine |-> eng, exc |-> "No voice selected"]
    ELSE IF outcome = "no_sounddevice"
         THEN [engine |-> eng, exc |-> "sounddevice not installed"]
    ELSE IF outcome = "open_fails"
         THEN [engine |-> [eng EXCEPT !.is_processing = TRUE], exc |-> "PortAudioError"]
    ELSE IF outcome = "start_fails"
         THEN [engine |-> [eng EXCEPT !.is_processing = TRUE, !.stream = "created"],
               exc |-> "PortAudioError"]
    ELSE [engine |-> [eng EXCEPT !.is_processing = TRUE, !.stream = "open"],
          exc |-> None]

\* stop
stop(eng, outcome) ==
    IF ~eng.is_processing THEN [engine |-> eng, exc |-> None]
    ELSE IF eng.stream = None
         THEN [engine |-> [eng EXCEPT !.is_processing = FALSE], exc |-> None]
    ELSE IF outcome = "stop_fails"
         THEN [engine |-> [eng EXCEPT !.is_processing = FALSE], exc |-> "PortAudioError"]
    ELSE [engine |-> [eng EXCEPT !.is_processing = FALSE, !.stream = None],
          exc |-> None]

\* get_status()["processing"]
get_status(eng) == IF eng.is_processing THEN "processing" ELSE "idle"

\* the message the handler sends last: its type, and the status or the
\* error text it carries
Reply(type, content) == [type |-> type, content |-> content]

\* what the handler answers to a call of the engine
Answer(type, s) ==
    IF s.exc # None THEN Reply("error", s.exc) ELSE Reply(type, get_status(s.engine))

\* websocket.accept and the "connected" message
ws_connect ==
    /\ call.fn = "websocket_realtime_control" /\ ~call.connected
    /\ call' = [call EXCEPT !.connected = TRUE,
                            !.reply = Reply("connected", get_status(engine))]
    /\ UNCHANGED <<store, engine>>

\* action "selectVoice": select_voice of the selector, set_voice of the
\* engine with the path get_audio_path gave ("" when the profile has no
\* audio file, which Path takes for the working directory)
ws_selectVoice(voice_id, exists) ==
    /\ call.fn = "websocket_realtime_control" /\ call.connected
    /\ IF voice_id = None
       THEN /\ call' = [call EXCEPT !.reply = Reply("error", "voiceId required")]
            /\ UNCHANGED engine
       ELSE IF voice_id = "voice_9"
       THEN /\ call' = [call EXCEPT !.reply = Reply("error", "Voice not found")]
            /\ UNCHANGED engine
       ELSE LET path_exists == IF voice_id = "voice_2" THEN TRUE ELSE exists
                s == set_voice(engine, voice_id, path_exists)
            IN /\ engine' = s.engine
               /\ call' = [call EXCEPT !.selected = voice_id,
                                       !.reply = IF s.exc # None THEN Reply("error", s.exc)
                                                 ELSE Reply("voiceSelected", voice_id)]
    /\ UNCHANGED store

\* action "start"
ws_start(outcome) ==
    /\ call.fn = "websocket_realtime_control" /\ call.connected
    /\ LET s == start(engine, outcome)
       IN /\ engine' = s.engine
          /\ call' = [call EXCEPT !.reply = Answer("started", s)]
    /\ UNCHANGED store

\* action "stop"
ws_stop(outcome) ==
    /\ call.fn = "websocket_realtime_control" /\ call.connected
    /\ LET s == stop(engine, outcome)
       IN /\ engine' = s.engine
          /\ call' = [call EXCEPT !.reply = Answer("stopped", s)]
    /\ UNCHANGED store

\* action "getStatus"
ws_getStatus ==
    /\ call.fn = "websocket_realtime_control" /\ call.connected
    /\ call' = [call EXCEPT !.reply = Reply("status", get_status(engine))]
    /\ UNCHANGED <<store, engine>>

\* WebSocketDisconnect: the engine is stopped if it is processing
ws_disconnect(outcome) ==
    /\ call.fn = "websocket_realtime_control" /\ call.connected
    /\ engine' = IF engine.is_processing THEN stop(engine, outcome).engine ELSE engine
    /\ call' = [call EXCEPT !.connected = FALSE, !.reply = Reply("closed", None)]
    /\ UNCHANGED store

InitEngine ==
    /\ InitStore
    /\ engine = NewEngine
    /\ call = [fn |-> "websocket_realtime_control", connected |-> FALSE,
               selected |-> None, reply |-> Reply("closed", None)]

NextEngine ==
    \/ ws_connect
    \/ \E v \in RtVoices \cup {None}, e \in BOOLEAN : ws_selectVoice(v, e)
    \/ \E o \in StartOutcomes : ws_start(o)
    \/ \E o \in StopOutcomes : ws_stop(o)
    \/ ws_getStatus
    \/ \E o \in StopOutcomes : ws_disconnect(o)

SpecEngine == InitEngine /\ [][NextEngine]_vars

\* C30: whatever the sequence of set_voice, start and stop calls, a start
\* whose stream cannot be opened among them, is_processing is true exactly
\* when an audio stream is open.
C30_ProcessingIffStreamOpen ==
    engine.is_processing <=> engine.stream = "open"

====
